---- MODULE Spec2Model ----
(***************************************************************************)
(* A model of the conversation core of claude-chatbot:                     *)
(*   ConversationManager (src/src/conversation_manager.py)  - SessionStore *)
(*   RetryHandler        (src/src/retry_handler.py)         - RetryExecutor*)
(*   ChatSession         (src/src/chat_session.py)   - ConversationSession *)
(* Python dicts are insertion ordered; they are modelled as sequences of   *)
(* [k, v] records so that next(iter(d)) and the iteration order of the     *)
(* handler registry are what the interpreter computes.                     *)
(***************************************************************************)
EXTENDS Integers, Sequences, FiniteSets, TLC

VARIABLES
  \* ---- ConversationManager ----
  sessions,         \* self.sessions: ordered dict name -> ChatSession object
  current_session,  \* self.current_session: a name or None
  last_active,      \* self.last_active: ordered dict name -> timestamp
  files,            \* the storage directory: name -> content of <name>.enc
  now,              \* datetime.now(), a logical clock
  storeRes,         \* the last ConversationManager call and how it ended
  \* ---- RetryHandler ----
  error_handlers,   \* self.error_handlers: ordered dict type key -> handler
  mode,             \* "async" (async_retry) or "sync" (retry.wrapper)
  max_retries,      \* the local max_retries of the running call
  rpc,              \* position of the retry loop
  attempt,          \* the loop variable
  history,          \* outcome of every invocation of func so far
  handler_calls,    \* every handler invocation: <<key, fn, fired, attempt>>
  waits,            \* the un-jittered delay of every sleep so far
  sleeping,         \* the delay handed to the pending sleep (0: none)
  outcome,          \* what the call returned or raised (NoOutcome: running)
  \* ---- ChatSession ----
  messages,         \* self.messages
  total_tokens_used,\* self.total_tokens_used
  active_context,   \* self.context_manager.active_context
  cpc,              \* position of get_response
  user_input,       \* the argument of the running get_response
  transmitted,      \* every messages= list handed to client.messages.create
  chatRes,          \* what the last get_response returned or raised
  turns,            \* number of get_response calls started
  system_prompts,   \* self.context_manager.system_prompts: ordered dict name -> prompt
  context_history,  \* self.context_manager.context_history
  session_file,     \* the file ChatSession.save_session writes
  sessRes,          \* the last direct ChatSession call and how it ended
  \* ---- ChatController and the callers of the components ----
  is_processing,    \* self.is_processing
  tasks,            \* the handler coroutines started so far and where each stands
  sweeps,           \* the running save_all_sessions / load_all_sessions loops
  cancelled,        \* whether the caller of the running retry loop gave it up
  custom_base_delay,\* the custom_base_delay passed to the running retry (0: none)
  removing          \* the name a running remove_custom_context has deleted (or None)

storeVars == <<sessions, current_session, last_active, files, now, storeRes>>
retryVars == <<error_handlers, mode, max_retries, rpc, attempt, history,
               handler_calls, waits, sleeping, outcome>>
chatVars  == <<messages, total_tokens_used, active_context, cpc, user_input, transmitted,
               chatRes, turns, system_prompts, context_history, session_file,
               sessRes>>
\* the ContextManager of the session and what save_session/load_session touch
ctxVars == <<system_prompts, context_history, session_file, sessRes>>
ctlVars == <<is_processing, tasks, sweeps, cancelled, custom_base_delay, removing>>
vars == <<storeVars, retryVars, chatVars, ctlVars>>

None == "<None>"

\* the ValueErrors of ConversationManager and ContextManager, by message
NotFound == "ValueError: Session not found"
AlreadyExists == "ValueError: Session already exists"
LastSession == "ValueError: Cannot delete the last session"
UnknownContext == "ValueError: Unknown context type"
ReservedName == "ValueError: Cannot override default context"

(***************************************************************************)
(* Python dict, insertion ordered.                                         *)
(***************************************************************************)
DictKeys(d) == {d[i].k : i \in 1..Len(d)}

DictHas(d, key) == key \in DictKeys(d)

DictIndex(d, key) == CHOOSE i \in 1..Len(d) : d[i].k = key

DictGet(d, key) == d[DictIndex(d, key)].v

\* d[key] = val: an existing key keeps its position, a new one goes last
DictSet(d, key, val) ==
  IF DictHas(d, key)
    THEN [d EXCEPT ![DictIndex(d, key)] = [k |-> key, v |-> val]]
    ELSE Append(d, [k |-> key, v |-> val])

\* del d[key] / d.pop(key)
DictDel(d, key) ==
  LET i == DictIndex(d, key)
  IN  SubSeq(d, 1, i - 1) \o SubSeq(d, i + 1, Len(d))

\* next(iter(d))
DictFirst(d) == d[1].k

(***************************************************************************)
(* ConversationManager                                                     *)
(***************************************************************************)
DefaultSessionName == "Default Session"

\* the session names the calls are made with
Names == {DefaultSessionName, "A", "B"}

\* ContextManager.DEFAULT_CONTEXTS (the names)
DEFAULT_CONTEXTS == {"general", "code_review", "teacher", "translator", "writer"}

CustomContext == "my_context"

\* the content of <name>.enc: absent, bytes that do not decrypt, or session_data
NoFile == [kind |-> "none"]
Corrupt == [kind |-> "corrupt"]
\* bytes that decrypt but are not the json of a session_data (json.loads raises,
\* or the 'messages' key is missing)
Malformed == [kind |-> "malformed"]

\* ChatSession(name=session_name) as the manager sees it
NewChatSession(name) ==
  [name |-> name, messages |-> <<>>, context |-> "general", custom |-> <<>>]

HelloLog == <<[role |-> "user", content |-> <<"Hello">>, metadata |-> None]>>

\* what save_session writes for a session: json of session_data, encrypted
SessionData(name, session, stamp) ==
  [kind |-> "data", name |-> name, messages |-> session.messages,
   context |-> session.context, last_active |-> stamp]

\* the files an earlier run can have left under <name>.enc, or an unreadable one
InitialFiles(name) ==
  {NoFile, Corrupt,
   SessionData(name, NewChatSession(name), 0),
   SessionData(name, [name |-> name, messages |-> HelloLog,
                      context |-> CustomContext,
                      custom |-> <<[k |-> CustomContext, v |-> "p1"]>>], 0)}

InitialDisks ==
  {d \in [Names -> UNION {InitialFiles(n) : n \in Names}] :
     \A n \in Names : d[n] \in InitialFiles(n)}

\* os.listdir: the .enc files in an order the file system chooses
ListDirs(disk) ==
  LET present == {n \in Names : disk[n] # NoFile}
  IN  {o \in [1..Cardinality(present) -> present] :
         \A i, j \in 1..Cardinality(present) : o[i] = o[j] => i = j}

\* the part of the manager the calls below read and write
StoreState ==
  [sessions |-> sessions, current_session |-> current_session,
   last_active |-> last_active, raised |-> None, ret |-> None]

\* a file load_session can restore: it decrypts, and set_context accepts its
\* context on a new ChatSession (whose ContextManager holds the defaults only)
Loadable(f) == f.kind = "data" /\ f.context \in DEFAULT_CONTEXTS

\* load_session: add_message(role, content) per stored message, then set_context
LoadedSession(name, f) ==
  [name |-> name,
   messages |-> [i \in 1..Len(f.messages) |->
                   [role |-> f.messages[i].role,
                    content |-> f.messages[i].content,
                    metadata |-> None]],
   context |-> f.context,
   custom |-> <<>>]

\* a load_session that registers the new session under the name before it
\* restores the stored messages and context into it
load_session_RegistersFirst(st, name, disk) ==
  IF disk[name] = NoFile THEN [st EXCEPT !.raised = "FileNotFoundError", !.ret = None]
  ELSE IF Loadable(disk[name])
    THEN [st EXCEPT
            !.last_active = DictSet(st.last_active, name, disk[name].last_active),
            !.sessions = DictSet(st.sessions, name, LoadedSession(name, disk[name])),
            !.raised = None, !.ret = name]
  ELSE [st EXCEPT
          !.last_active = DictSet(st.last_active, name, now),
          !.sessions = DictSet(st.sessions, name, NewChatSession(name)),
          !.raised = "Exception", !.ret = None]

load_session(st, name, disk) ==
  IF disk[name] = NoFile THEN [st EXCEPT !.raised = "FileNotFoundError", !.ret = None]
  ELSE IF disk[name] = Corrupt THEN [st EXCEPT !.raised = "InvalidToken", !.ret = None]
  ELSE IF disk[name] = Malformed THEN [st EXCEPT !.raised = "JSONDecodeError", !.ret = None]
  ELSE IF disk[name].context \notin DEFAULT_CONTEXTS
    THEN [st EXCEPT !.raised = UnknownContext, !.ret = None]
  ELSE [st EXCEPT
          !.last_active = DictSet(st.last_active, name, disk[name].last_active),
          !.sessions = DictSet(st.sessions, name, LoadedSession(name, disk[name])),
          !.raised = None, !.ret = name]

RECURSIVE LoadFrom(_, _, _, _)
LoadFrom(st, order, i, disk) ==
  IF i > Len(order) THEN [st EXCEPT !.raised = None, !.ret = None]
  ELSE LoadFrom(load_session(st, order[i], disk), order, i + 1, disk)

\* load_all_sessions: every listed file, a failing one logged and skipped
load_all_sessions(st, order, disk) == LoadFrom(st, order, 1, disk)

\* create_new_session without the duplicate check: the new object replaces
\* the session stored under the name
create_new_session_Overwrites(st, name) ==
  [st EXCEPT
     !.sessions = DictSet(st.sessions, name, NewChatSession(name)),
     !.last_active = DictSet(st.last_active, name, now),
     !.current_session =
        IF st.current_session = None THEN name ELSE st.current_session,
     !.raised = None, !.ret = name]

\* create_new_session that always makes the new session current
create_new_session_AlwaysCurrent(st, name) ==
  IF DictHas(st.sessions, name)
    THEN [st EXCEPT !.raised = AlreadyExists, !.ret = None]
    ELSE [st EXCEPT
            !.sessions = DictSet(st.sessions, name, NewChatSession(name)),
            !.last_active = DictSet(st.last_active, name, now),
            !.current_session = name,
            !.raised = None, !.ret = name]

create_new_session(st, name) ==
  IF DictHas(st.sessions, name)
    THEN [st EXCEPT !.raised = AlreadyExists, !.ret = None]
    ELSE [st EXCEPT
            !.sessions = DictSet(st.sessions, name, NewChatSession(name)),
            !.last_active = DictSet(st.last_active, name, now),
            !.current_session =
               IF st.current_session = None THEN name ELSE st.current_session,
            !.raised = None, !.ret = name]

\* __init__: load what is stored, create the default session if nothing loaded
Constructed(disk, order) ==
  LET empty == [sessions |-> <<>>, current_session |-> None,
                last_active |-> <<>>, raised |-> None, ret |-> None]
      loaded == load_all_sessions(empty, order, disk)
  IN  IF loaded.sessions = <<>>
        THEN create_new_session(loaded, DefaultSessionName)
        ELSE loaded

get_current_session(st) ==
  LET healed ==
        IF st.current_session = None \/ ~DictHas(st.sessions, st.current_session)
          THEN create_new_session(st, DefaultSessionName)
          ELSE [st EXCEPT !.raised = None]
  IN  IF healed.raised # None THEN healed
      ELSE IF ~DictHas(healed.sessions, healed.current_session)
        THEN [healed EXCEPT !.raised = "KeyError", !.ret = None]
      ELSE [healed EXCEPT
              !.last_active = DictSet(healed.last_active, healed.current_session, now),
              !.ret = healed.current_session]

\* switch_session without the membership check
switch_session_Unchecked(st, name) ==
  [st EXCEPT
     !.current_session = name,
     !.last_active = DictSet(st.last_active, name, now),
     !.raised = None, !.ret = name]

switch_session(st, name) ==
  IF ~DictHas(st.sessions, name)
    THEN [st EXCEPT !.raised = NotFound, !.ret = None]
    ELSE [st EXCEPT
            !.current_session = name,
            !.last_active = DictSet(st.last_active, name, now),
            !.raised = None, !.ret = name]

\* rename_session that re-keys sessions and leaves last_active as it is
rename_session_KeepsStamp(st, old_name, new_name) ==
  IF ~DictHas(st.sessions, old_name)
    THEN [st EXCEPT !.raised = NotFound, !.ret = None]
  ELSE IF DictHas(st.sessions, new_name)
    THEN [st EXCEPT !.raised = AlreadyExists, !.ret = None]
  ELSE [st EXCEPT
          !.sessions = DictSet(DictDel(st.sessions, old_name), new_name,
                               DictGet(st.sessions, old_name)),
          !.current_session =
             IF st.current_session = old_name THEN new_name ELSE st.current_session,
          !.raised = None, !.ret = None]

\* rename_session, the dicts and the pointer (lines 148-157)
rename_session(st, old_name, new_name) ==
  IF ~DictHas(st.sessions, old_name)
    THEN [st EXCEPT !.raised = NotFound, !.ret = None]
  ELSE IF DictHas(st.sessions, new_name)
    THEN [st EXCEPT !.raised = AlreadyExists, !.ret = None]
  ELSE [st EXCEPT
          !.sessions = DictSet(DictDel(st.sessions, old_name), new_name,
                               DictGet(st.sessions, old_name)),
          !.last_active = DictSet(DictDel(st.last_active, old_name), new_name,
                                  DictGet(st.last_active, old_name)),
          !.current_session =
             IF st.current_session = old_name THEN new_name ELSE st.current_session,
          !.raised = None, !.ret = None]

\* os.rename(old_path, new_path) when old_path exists
RenamedFiles(disk, old_name, new_name) ==
  [disk EXCEPT ![new_name] = disk[old_name], ![old_name] = NoFile]

\* delete_session re-pointing current_session at the newest remaining session
delete_session_PicksLast(st, arg) ==
  LET session_name == IF arg = None THEN st.current_session ELSE arg
  IN  IF ~DictHas(st.sessions, session_name)
        THEN [st EXCEPT !.raised = NotFound, !.ret = None]
      ELSE IF Len(st.sessions) = 1
        THEN [st EXCEPT !.raised = LastSession, !.ret = None]
      ELSE LET left == DictDel(st.sessions, session_name)
           IN  [st EXCEPT
                  !.sessions = left,
                  !.last_active = DictDel(st.last_active, session_name),
                  !.current_session =
                     IF st.current_session = session_name
                       THEN left[Len(left)].k ELSE st.current_session,
                  !.raised = None, !.ret = session_name]

delete_session(st, arg) ==
  LET session_name == IF arg = None THEN st.current_session ELSE arg
  IN  IF ~DictHas(st.sessions, session_name)
        THEN [st EXCEPT !.raised = NotFound, !.ret = None]
      ELSE IF Len(st.sessions) = 1
        THEN [st EXCEPT !.raised = LastSession, !.ret = None]
      ELSE LET left == DictDel(st.sessions, session_name)
           IN  [st EXCEPT
                  !.sessions = left,
                  !.last_active = DictDel(st.last_active, session_name),
                  !.current_session =
                     IF st.current_session = session_name
                       THEN DictFirst(left) ELSE st.current_session,
                  !.raised = None, !.ret = session_name]

\* os.remove(file_path) of a delete_session that gets past its two checks
DeletedFiles(disk, st, arg) ==
  LET session_name == IF arg = None THEN st.current_session ELSE arg
  IN  IF DictHas(st.sessions, session_name) /\ Len(st.sessions) > 1
        THEN [disk EXCEPT ![session_name] = NoFile]
        ELSE disk

\* save_all_sessions: save_session per key; a write that fails is logged
SavedFiles(disk, st, failing) ==
  [n \in Names |->
     IF DictHas(st.sessions, n) /\ n \notin failing
       THEN SessionData(n, DictGet(st.sessions, n), DictGet(st.last_active, n))
       ELSE disk[n]]

\* ---- the calls as steps of the manager ----
\* the call made (its name and arguments) and its result
Record(op, args, st) == [op |-> op, args |-> args, raised |-> st.raised, ret |-> st.ret]

Assign(st) ==
  /\ sessions' = st.sessions
  /\ current_session' = st.current_session
  /\ last_active' = st.last_active

CreateNewSession(name) ==
  LET st == create_new_session(StoreState, name)
  IN  /\ Assign(st)
      /\ storeRes' = Record("create_new_session", <<name>>, st)
      /\ UNCHANGED <<files, now, retryVars, chatVars, ctlVars>>

GetCurrentSession ==
  LET st == get_current_session(StoreState)
  IN  /\ Assign(st)
      /\ storeRes' = Record("get_current_session", <<>>, st)
      /\ UNCHANGED <<files, now, retryVars, chatVars, ctlVars>>

SwitchSession(name) ==
  LET st == switch_session(StoreState, name)
  IN  /\ Assign(st)
      /\ storeRes' = Record("switch_session", <<name>>, st)
      /\ UNCHANGED <<files, now, retryVars, chatVars, ctlVars>>

\* os.rename onto an existing new_path replaces it on POSIX and raises
\* FileExistsError on Windows, after the dicts were re-keyed
RenameSession(old_name, new_name) ==
  LET st == rename_session(StoreState, old_name, new_name)
  IN  /\ Assign(st)
      /\ UNCHANGED <<now, retryVars, chatVars, ctlVars>>
      /\ IF st.raised # None \/ files[old_name] = NoFile
           THEN /\ files' = files
                /\ storeRes' = Record("rename_session", <<old_name, new_name>>, st)
           ELSE \/ /\ files' = RenamedFiles(files, old_name, new_name)
                   /\ storeRes' = Record("rename_session", <<old_name, new_name>>, st)
                \/ /\ files[new_name] # NoFile
                   /\ files' = files
                   /\ storeRes' = Record("rename_session", <<old_name, new_name>>,
                                         [st EXCEPT !.raised = "FileExistsError"])

DeleteSession(arg) ==
  LET st == delete_session(StoreState, arg)
  IN  /\ Assign(st)
      /\ files' = DeletedFiles(files, StoreState, arg)
      /\ storeRes' = Record("delete_session", <<arg>>, st)
      /\ UNCHANGED <<now, retryVars, chatVars, ctlVars>>

\* the sessions whose save fails, in the order the loop meets them
FailedSaves(st, failing) ==
  SelectSeq([i \in 1..Len(st.sessions) |-> st.sessions[i].k], LAMBDA n : n \in failing)

\* a save_all_sessions that lets the first failure of save_session escape the loop
save_all_sessions_Aborts(disk, st, failing) ==
  LET failed == FailedSaves(st, failing)
      stop == IF failed = <<>> THEN Len(st.sessions) + 1 ELSE DictIndex(st.sessions, failed[1])
      done == {st.sessions[i].k : i \in 1..(stop - 1)}
  IN  [files |-> SavedFiles(disk, st, failing \cup (DictKeys(st.sessions) \ done)),
       raised |-> IF failed = <<>> THEN None ELSE "Exception"]

\* save_all_sessions: every session is saved in turn, a failing save_session
\* is logged and the loop goes on
save_all_sessions(disk, st, failing) ==
  [files |-> SavedFiles(disk, st, failing), raised |-> None]

SaveAllSessions ==
  \E failing \in SUBSET DictKeys(sessions) :
    LET r == save_all_sessions(files, StoreState, failing)
    IN  /\ files' = r.files
        /\ storeRes' = [op |-> "save_all_sessions",
                        args |-> FailedSaves(StoreState, failing),
                        raised |-> r.raised, ret |-> None]
        /\ UNCHANGED <<sessions, current_session, last_active, now, retryVars, chatVars, ctlVars>>

LoadAllSessions ==
  \E order \in ListDirs(files) :
    LET st == load_all_sessions(StoreState, order, files)
    IN  /\ Assign(st)
        /\ storeRes' = Record("load_all_sessions", <<>>, st)
        /\ UNCHANGED <<files, now, retryVars, chatVars, ctlVars>>

\* load_session called on its own
ManagerLoadSession(name) ==
  LET st == load_session(StoreState, name, files)
  IN  /\ Assign(st)
      /\ storeRes' = Record("load_session", <<name>>, st)
      /\ UNCHANGED <<files, now, retryVars, chatVars, ctlVars>>

\* ---- retention ----
\* sessions_to_delete: the names whose last_active is more than days old
RECURSIVE SessionsToDelete(_, _)
SessionsToDelete(stamps, days) ==
  IF stamps = <<>> THEN <<>>
  ELSE (IF now - stamps[1].v > days THEN <<stamps[1].k>> ELSE <<>>)
         \o SessionsToDelete(Tail(stamps), days)

\* the loop of delete_session calls of cleanup_old_sessions: one that raises
\* is logged and the loop goes on
RECURSIVE CleanupFrom(_, _, _)
CleanupFrom(r, names, i) ==
  IF i > Len(names) THEN r
  ELSE LET st == delete_session(r.st, names[i])
       IN  CleanupFrom([st |-> IF st.raised = None THEN st ELSE r.st,
                        disk |-> DeletedFiles(r.disk, r.st, names[i])],
                       names, i + 1)

cleanup_old_sessions(st, disk, days) ==
  CleanupFrom([st |-> st, disk |-> disk], SessionsToDelete(st.last_active, days), 1)

CleanupOldSessions(days) ==
  LET r == cleanup_old_sessions(StoreState, files, days)
  IN  /\ Assign(r.st)
      /\ files' = r.disk
      /\ storeRes' = Record("cleanup_old_sessions", <<days>>,
                            [raised |-> None, ret |-> None])
      /\ UNCHANGED <<now, retryVars, chatVars, ctlVars>>

\* days the clock is followed for
MaxDay == 2

\* a day passes
Tick ==
  /\ now < MaxDay
  /\ now' = now + 1
  /\ UNCHANGED <<sessions, current_session, last_active, files, storeRes,
                 retryVars, chatVars, ctlVars>>

(***************************************************************************)
(* RetryHandler                                                            *)
(***************************************************************************)
\* What one invocation of func does: cls "ok" is a return of text, any
\* other cls is the class of the exception raised (0: no such attribute).
Out(cls, status_code, retry_after, text) ==
  [cls |-> cls, status_code |-> status_code, retry_after |-> retry_after,
   text |-> text]

Nothing == Out("none", 0, 0, <<>>)

Ok(text) == Out("ok", 0, 0, text)

StatusCodes == {429, 500, 502, 503, 504, 400, 401, 404}

\* a Retry-After of 5 s, in ms
RetryAfterHint == 5000

\* the exceptions is_retryable_error is asked about
Errors ==
  {Out("APIError", c, 0, <<>>) : c \in StatusCodes}
    \cup {Out("APIError", 429, RetryAfterHint, <<>>)}
    \cup {Out(c, 0, 0, <<>>) : c \in {"ConnectionError", "TimeoutError", "ValueError"}}

\* the exceptions func raises in the runs explored
OpErrors ==
  {Out("APIError", 429, 0, <<>>), Out("APIError", 429, RetryAfterHint, <<>>),
   Out("APIError", 500, 0, <<>>), Out("APIError", 401, 0, <<>>),
   Out("ConnectionError", 0, 0, <<>>), Out("ValueError", 0, 0, <<>>)}

\* the keys of error_handlers: an exception type or a tuple of types
NetErrors == "(ConnectionError, TimeoutError)"
HandlerKeys == {"APIError", NetErrors, "ValueError", "Exception"}

\* isinstance(error, error_type)
IsInstance(e, key) ==
  CASE key = "Exception" -> TRUE
    [] key = NetErrors -> e.cls \in {"ConnectionError", "TimeoutError"}
    [] OTHER -> e.cls = key

\* register_error_handler: with error_codes the handler is wrapped
register_error_handler(handlers, key, fn, codes) ==
  DictSet(handlers, key, [fn |-> fn, codes |-> codes])

\* _register_default_handlers: the second APIError registration replaces the first
DefaultHandlers ==
  LET h1 == register_error_handler(<<>>, "APIError", "handle_api_rate_limit", {429})
      h2 == register_error_handler(h1, "APIError", "handle_api_server_error",
                                   {500, 502, 503, 504})
  IN  register_error_handler(h2, NetErrors, "handle_network_error", {})

\* max_retries, base_delay, max_delay (ms), exponential_base of __init__
SelfMaxRetries == 3
BaseDelay == 1000
MaxDelay == 60000
ExponentialBase == 2

RECURSIVE Pow(_, _)
Pow(b, n) == IF n = 0 THEN 1 ELSE b * Pow(b, n - 1)

Min(a, b) == IF a <= b THEN a ELSE b

\* calculate_delay without the min against max_delay
calculate_delay_Uncapped(att, e) ==
  LET delay == BaseDelay * Pow(ExponentialBase, att)
  IN  IF e.cls = "APIError" /\ e.status_code = 429 /\ e.retry_after # 0
        THEN e.retry_after
        ELSE delay

\* calculate_delay before the jitter
calculate_delay(att, e) ==
  LET delay == Min(BaseDelay * Pow(ExponentialBase, att), MaxDelay)
  IN  IF e.cls = "APIError" /\ e.status_code = 429 /\ e.retry_after # 0
        THEN e.retry_after
        ELSE delay

\* delay *= (0.5 + random.random()): samples of the factor, per mille
JitterPermille == {500, 1000, 1499}

is_retryable_error(handlers, e) ==
  IF e.cls = "APIError" THEN e.status_code \in {429, 500, 502, 503, 504}
  ELSE IF e.cls \in {"ConnectionError", "TimeoutError"} THEN TRUE
  ELSE \E i \in 1..Len(handlers) : IsInstance(e, handlers[i].k)

\* the handler loop of the except block: the first matching key, then break
HandlerCall(handlers, e, att) ==
  LET hits == {i \in 1..Len(handlers) : IsInstance(e, handlers[i].k)}
  IN  IF hits = {} THEN <<>>
      ELSE LET i == CHOOSE j \in hits : \A m \in hits : j <= m
               h == handlers[i].v
           IN  <<[key |-> handlers[i].k, fn |-> h.fn,
                  fired |-> (h.codes = {} \/ e.status_code \in h.codes),
                  attempt |-> att]>>

\* Decide without the retry: every caught error is raised at once
Decide_NeverRetries(handlers, e, att, maxr) ==
  IF att = maxr - 1 THEN "raise_last" ELSE "raise"

\* Decide without the is_retryable_error check
Decide_RetriesAnyError(handlers, e, att, maxr) ==
  IF att = maxr - 1 THEN "raise_last" ELSE "sleep"

\* Decide with the last attempt compared against max_retries
Decide_OffByOne(handlers, e, att, maxr) ==
  IF ~is_retryable_error(handlers, e) THEN "raise"
  ELSE IF att = maxr THEN "raise_last"
  ELSE "sleep"

\* what the except block decides for error e caught in attempt att
Decide(handlers, e, att, maxr) ==
  IF ~is_retryable_error(handlers, e) THEN "raise"
  ELSE IF att = maxr - 1 THEN "raise_last"
  ELSE "sleep"

\* custom_max_retries or self.max_retries (0 stands for None)
EffectiveMaxRetries(custom) == IF custom # 0 THEN custom ELSE SelfMaxRetries

RetryIdle ==
  /\ rpc = "idle" /\ attempt = 0 /\ history = <<>> /\ handler_calls = <<>>
  /\ waits = <<>> /\ sleeping = 0 /\ outcome = [kind |-> "none", val |-> Nothing]
  /\ max_retries = 0 /\ mode = None

\* entry of async_retry ("async") or of retry's wrapper ("sync")
StartRetry(m, custom) ==
  /\ rpc = "idle"
  /\ mode' = m
  /\ max_retries' = EffectiveMaxRetries(custom)
  /\ rpc' = "call"
  /\ UNCHANGED <<error_handlers, attempt, history, handler_calls, waits,
                 sleeping, outcome>>

\* one pass of the loop body: func is invoked and does o
Invoke(o) ==
  /\ rpc = "call"
  /\ history' = Append(history, o)
  /\ IF o.cls = "ok"
       THEN /\ outcome' = [kind |-> "returned", val |-> o]
            /\ rpc' = "done"
            /\ UNCHANGED <<handler_calls, waits, sleeping>>
       ELSE /\ handler_calls' = handler_calls \o HandlerCall(error_handlers, o, attempt)
            /\ IF Decide(error_handlers, o, attempt, max_retries) = "sleep"
                 THEN /\ waits' = Append(waits, calculate_delay(attempt, o))
                      /\ \E j \in JitterPermille :
                           sleeping' = (calculate_delay(attempt, o) * j) \div 1000
                      /\ rpc' = "sleep"
                      /\ outcome' = outcome
                 ELSE /\ outcome' = [kind |-> "raised", val |-> o]
                      /\ rpc' = "done"
                      /\ UNCHANGED <<waits, sleeping>>
  /\ UNCHANGED <<error_handlers, mode, max_retries, attempt>>

\* asyncio.sleep / time.sleep returns; the loop goes to the next attempt
\* (a loop that runs out of attempts reaches the raise last_error after it)
Wake ==
  /\ rpc = "sleep"
  /\ attempt' = attempt + 1
  /\ sleeping' = 0
  /\ IF attempt + 1 < max_retries
       THEN rpc' = "call" /\ outcome' = outcome
       ELSE rpc' = "done" /\ outcome' = [kind |-> "raised", val |-> history[Len(history)]]
  /\ UNCHANGED <<error_handlers, mode, max_retries, history, handler_calls, waits>>

\* the caller has the result; the handler is ready for the next call
Finish ==
  /\ rpc = "done"
  /\ rpc' = "idle" /\ attempt' = 0 /\ history' = <<>> /\ handler_calls' = <<>>
  /\ waits' = <<>> /\ sleeping' = 0 /\ outcome' = [kind |-> "none", val |-> Nothing]
  /\ max_retries' = 0 /\ mode' = None
  /\ UNCHANGED error_handlers

RegisterErrorHandler(key) ==
  /\ rpc = "idle"
  /\ error_handlers' = register_error_handler(error_handlers, key, "user_handler", {})
  /\ UNCHANGED <<mode, max_retries, rpc, attempt, history, handler_calls,
                 waits, sleeping, outcome, ctlVars>>

\* the loop of async_retry / wrapper run to its end over the outcomes func
\* gives in order: the invocations made, the delays waited, the result
RECURSIVE Replay(_, _, _, _, _)
Replay(handlers, script, maxr, att, slept) ==
  IF att >= Len(script) \/ att >= maxr
    THEN [calls |-> att, waits |-> slept,
          outcome |-> IF att = 0 \/ att < maxr
                        THEN [kind |-> "none", val |-> Nothing]
                        ELSE [kind |-> "raised", val |-> script[att]]]
  ELSE LET o == script[att + 1]
       IN  IF o.cls = "ok"
             THEN [calls |-> att + 1, waits |-> slept,
                   outcome |-> [kind |-> "returned", val |-> o]]
           ELSE IF Decide(handlers, o, att, maxr) = "sleep"
             THEN Replay(handlers, script, maxr, att + 1,
                         Append(slept, calculate_delay(att, o)))
           ELSE [calls |-> att + 1, waits |-> slept,
                 outcome |-> [kind |-> "raised", val |-> o]]

(***************************************************************************)
(* ChatSession                                                             *)
(***************************************************************************)
\* __init__: RetryHandler(max_retries=3, base_delay=1.0), then
\* _register_default_error_handlers
ChatHandlers ==
  LET h1 == register_error_handler(DefaultHandlers, "APIError", "handle_api_error", {})
  IN  register_error_handler(h1, "Exception", "handle_general_error", {})

\* get_response calls explored per session
MaxTurns == 2

\* texts are sequences of words
UserInputs == {<<"hi">>, <<"how", "are", "you">>}

\* a fenced code block whose language pygments has no lexer for
BadFence == <<"[fence nolang]", "x", "[fence]">>

\* what the remote service answers
Completions == {<<"fine">>, <<"**fine**">>, BadFence}

\* add_message with insert(0, message) in place of append(message)
add_message_Prepends(log, role, content, metadata) ==
  <<[role |-> role, content |-> content, metadata |-> metadata]>> \o log

\* add_message
add_message(log, role, content, metadata) ==
  Append(log, [role |-> role, content |-> content, metadata |-> metadata])

\* make_request: the messages= argument built from self.messages
RequestMessages(log) ==
  [i \in 1..Len(log) |-> [role |-> log[i].role, content |-> log[i].content]]

\* make_request: the request handed to client.messages.create
Request(log, context) ==
  [messages |-> RequestMessages(log), system |-> context]

\* utils.count_tokens of a single message
count_tokens(content) == Len(content)

\* format_response: **x** becomes bold; a fenced block names its lexer
FormatWord(w) == IF w = "**fine**" THEN "<b>fine</b>" ELSE w

FormatRaises(text) == text = BadFence

format_response(text) == [i \in 1..Len(text) |-> FormatWord(text[i])]

\* the except branch of get_response: the error becomes the return value
ErrorMessage(cls) == <<"get_response failed:", cls>>

\* the except branch with a raise in place of the return
OnError_Reraises(cls) == [kind |-> "raised", error |-> TRUE, text |-> ErrorMessage(cls)]

OnError(cls) == [kind |-> "returned", error |-> TRUE, text |-> ErrorMessage(cls)]

\* get_response up to the first invocation of make_request
GetResponse(input) ==
  /\ cpc = "idle"
  /\ turns < MaxTurns
  /\ messages' = add_message(messages, "user", input, None)
  /\ user_input' = input
  /\ transmitted' = <<>>
  /\ turns' = turns + 1
  /\ cpc' = "retry"
  /\ StartRetry("async", 0)
  /\ UNCHANGED <<total_tokens_used, active_context, chatRes, ctxVars, storeVars, ctlVars>>

\* one invocation of make_request by async_retry
MakeRequest(o) ==
  /\ cpc = "retry"
  /\ transmitted' = Append(transmitted, Request(messages, active_context))
  /\ Invoke(o)
  /\ UNCHANGED <<messages, total_tokens_used, active_context, cpc, user_input,
                 chatRes, turns, ctxVars, storeVars, ctlVars>>

ChatWake ==
  /\ cpc = "retry"
  /\ Wake
  /\ UNCHANGED <<chatVars, storeVars, ctlVars>>

\* get_response after async_retry returned or raised
GetResponseReturn ==
  /\ cpc = "retry"
  /\ Finish
  /\ cpc' = "idle"
  /\ IF outcome.kind = "returned"
       THEN /\ messages' = add_message(messages, "assistant", outcome.val.text, None)
            /\ total_tokens_used' = total_tokens_used + count_tokens(user_input)
                                      + count_tokens(outcome.val.text)
            /\ chatRes' = IF FormatRaises(outcome.val.text)
                            THEN OnError("ClassNotFound")
                            ELSE [kind |-> "returned", error |-> FALSE,
                                  text |-> format_response(outcome.val.text)]
       ELSE /\ chatRes' = OnError(outcome.val.cls)
            /\ UNCHANGED <<messages, total_tokens_used>>
  /\ UNCHANGED <<active_context, user_input, transmitted, turns, ctxVars, storeVars, ctlVars>>

(***************************************************************************)
(* ContextManager                                                          *)
(***************************************************************************)
\* DEFAULT_CONTEXTS.copy(): the five built-in prompts, in declaration order
DefaultPrompts ==
  <<[k |-> "general", v |-> "You are Claude, a helpful AI assistant."],
    [k |-> "code_review", v |-> "You are a skilled Python developer ..."],
    [k |-> "teacher", v |-> "You are an expert teacher ..."],
    [k |-> "translator", v |-> "You are a professional translator ..."],
    [k |-> "writer", v |-> "You are a creative writer ..."]>>

\* self.max_history
max_history == 10

\* the ContextManager of the session the calls below read and write
ContextState ==
  [system_prompts |-> system_prompts, active_context |-> active_context,
   context_history |-> context_history, raised |-> None]

\* ContextManager(): what a new ChatSession holds
NewContextManager ==
  [system_prompts |-> DefaultPrompts, active_context |-> "general",
   context_history |-> <<>>, raised |-> None]

\* set_context without the pop(0) that keeps the history at max_history
set_context_NeverDrops(cm, context_type) ==
  IF ~DictHas(cm.system_prompts, context_type)
    THEN [cm EXCEPT !.raised = UnknownContext]
    ELSE [cm EXCEPT
            !.active_context = context_type,
            !.context_history = Append(cm.context_history,
                                       [context |-> context_type, timestamp |-> now]),
            !.raised = None]

\* set_context that assigns active_context before it looks the name up
set_context_AssignsFirst(cm, context_type) ==
  IF ~DictHas(cm.system_prompts, context_type)
    THEN [cm EXCEPT !.active_context = context_type, !.raised = UnknownContext]
    ELSE LET h == Append(cm.context_history,
                         [context |-> context_type, timestamp |-> now])
         IN  [cm EXCEPT
                !.active_context = context_type,
                !.context_history = IF Len(h) > max_history THEN Tail(h) ELSE h,
                !.raised = None]

\* set_context: the entry appended carries last_change, a datetime
set_context(cm, context_type) ==
  IF ~DictHas(cm.system_prompts, context_type)
    THEN [cm EXCEPT !.raised = UnknownContext]
    ELSE LET h == Append(cm.context_history,
                         [context |-> context_type, timestamp |-> now])
         IN  [cm EXCEPT
                !.active_context = context_type,
                !.context_history = IF Len(h) > max_history THEN Tail(h) ELSE h,
                !.raised = None]

\* add_custom_context without the test for a built-in name
add_custom_context_Unchecked(cm, name, prompt) ==
  [cm EXCEPT !.system_prompts = DictSet(cm.system_prompts, name, prompt),
             !.raised = None]

add_custom_context(cm, name, prompt) ==
  IF name \in DEFAULT_CONTEXTS
    THEN [cm EXCEPT !.raised = ReservedName]
    ELSE [cm EXCEPT !.system_prompts = DictSet(cm.system_prompts, name, prompt),
                    !.raised = None]

\* remove_custom_context without the change of the active context
remove_custom_context_KeepsActive(cm, name) ==
  IF name \in DEFAULT_CONTEXTS
    THEN [cm EXCEPT !.raised = "ValueError: Cannot remove default context"]
  ELSE IF ~DictHas(cm.system_prompts, name)
    THEN [cm EXCEPT !.raised = "ValueError: Context not found"]
  ELSE [cm EXCEPT !.system_prompts = DictDel(cm.system_prompts, name),
                  !.raised = None]

remove_custom_context(cm, name) ==
  IF name \in DEFAULT_CONTEXTS
    THEN [cm EXCEPT !.raised = "ValueError: Cannot remove default context"]
  ELSE IF ~DictHas(cm.system_prompts, name)
    THEN [cm EXCEPT !.raised = "ValueError: Context not found"]
  ELSE LET removed == [cm EXCEPT !.system_prompts = DictDel(cm.system_prompts, name),
                                 !.raised = None]
       IN  IF cm.active_context = name
             THEN set_context(removed, "general")
             ELSE removed

reset_to_default(cm) ==
  [cm EXCEPT !.system_prompts = DefaultPrompts, !.active_context = "general",
             !.context_history = <<>>, !.raised = None]

(***************************************************************************)
(* ChatSession: the log and the session file                               *)
(***************************************************************************)
\* content values: a str, a list of content blocks, and a value that is neither
Hello == <<"Hello">>
ImageBlocks == <<"{type: text}", "{type: image}">>
NotContent == <<"<int 42>">>

\* the Python type of a content value
TypeOf(content) ==
  IF content = NotContent THEN "int"
  ELSE IF content = ImageBlocks THEN "list"
  ELSE "str"

\* metadata as process_image_message passes it
ImageMeta == "{image_path: cat.png}"

\* {k: v ... if k not in ContextManager.DEFAULT_CONTEXTS}
RECURSIVE CustomContexts(_)
CustomContexts(prompts) ==
  IF prompts = <<>> THEN <<>>
  ELSE IF prompts[1].k \in DEFAULT_CONTEXTS THEN CustomContexts(Tail(prompts))
  ELSE <<prompts[1]>> \o CustomContexts(Tail(prompts))

\* json.dumps(data): every entry of context_history holds a datetime, which
\* is not JSON serializable (TypeError)
JsonSerializable(data) == Len(data.context_history) = 0

\* ChatSession.save_session: the data dict, and the file after the call
SessionFileData(log, tokens, cm) ==
  [kind |-> "data",
   messages |-> [i \in 1..Len(log) |->
                   [role |-> log[i].role, content |-> log[i].content,
                    metadata |-> log[i].metadata]],
   total_tokens_used |-> tokens,
   active_context |-> cm.active_context,
   context_history |-> cm.context_history,
   custom_contexts |-> CustomContexts(cm.system_prompts)]

save_session(file, log, tokens, cm) ==
  LET data == SessionFileData(log, tokens, cm)
  IN  IF JsonSerializable(data)
        THEN [file |-> data, raised |-> None]
        ELSE [file |-> file, raised |-> "TypeError"]

\* the loop of add_custom_context calls of ChatSession.load_session
RECURSIVE AddCustomContexts(_, _)
AddCustomContexts(cm, customs) ==
  IF customs = <<>> \/ cm.raised # None THEN cm
  ELSE AddCustomContexts(add_custom_context(cm, customs[1].k, customs[1].v),
                         Tail(customs))

\* ChatSession.load_session: a new instance restored from the file
RestoredSession(file) ==
  LET added == AddCustomContexts(NewContextManager, file.custom_contexts)
      cm == IF added.raised # None THEN added
            ELSE set_context(added, file.active_context)
  IN  [messages |-> [i \in 1..Len(file.messages) |->
                       [role |-> file.messages[i].role,
                        content |-> file.messages[i].content,
                        metadata |-> file.messages[i].metadata]],
       total_tokens_used |-> file.total_tokens_used,
       cm |-> cm, raised |-> cm.raised]

\* ---- the calls made on a ChatSession directly ----
SessionCall(op, raised, role, ctype) ==
  [op |-> op, raised |-> raised, role |-> role, ctype |-> ctype]

\* messages a caller may hold in one session / set_context calls explored
MaxLog == 2
MaxContextChanges == 2

AssignContext(cm) ==
  /\ system_prompts' = cm.system_prompts
  /\ active_context' = cm.active_context
  /\ context_history' = cm.context_history

AddMessage(role, content, metadata) ==
  /\ cpc = "idle"
  /\ Len(messages) < MaxLog
  /\ messages' = add_message(messages, role, content, metadata)
  /\ sessRes' = SessionCall("add_message", None, role, TypeOf(content))
  /\ UNCHANGED <<total_tokens_used, active_context, cpc, user_input, transmitted,
                 chatRes, turns, system_prompts, context_history, session_file,
                 storeVars, retryVars, ctlVars>>

\* set_context, called any number of times
SetContextCall(context_type) ==
  LET cm == set_context(ContextState, context_type)
  IN  /\ AssignContext(cm)
      /\ sessRes' = SessionCall("set_context", cm.raised, None, None)
      /\ UNCHANGED <<messages, total_tokens_used, cpc, user_input, transmitted,
                     chatRes, turns, session_file, storeVars, retryVars, ctlVars>>

SetContext(context_type) ==
  LET cm == set_context(ContextState, context_type)
  IN  /\ Len(context_history) < MaxContextChanges
      /\ AssignContext(cm)
      /\ sessRes' = SessionCall("set_context", cm.raised, None, None)
      /\ UNCHANGED <<messages, total_tokens_used, cpc, user_input, transmitted,
                     chatRes, turns, session_file, storeVars, retryVars, ctlVars>>

AddCustomContext(name, prompt) ==
  LET cm == add_custom_context(ContextState, name, prompt)
  IN  /\ AssignContext(cm)
      /\ sessRes' = SessionCall("add_custom_context", cm.raised, None, None)
      /\ UNCHANGED <<messages, total_tokens_used, cpc, user_input, transmitted,
                     chatRes, turns, session_file, storeVars, retryVars, ctlVars>>

RemoveCustomContext(name) ==
  LET cm == remove_custom_context(ContextState, name)
  IN  /\ AssignContext(cm)
      /\ sessRes' = SessionCall("remove_custom_context", cm.raised, None, None)
      /\ UNCHANGED <<messages, total_tokens_used, cpc, user_input, transmitted,
                     chatRes, turns, session_file, storeVars, retryVars, ctlVars>>

ResetToDefault ==
  LET cm == reset_to_default(ContextState)
  IN  /\ AssignContext(cm)
      /\ sessRes' = SessionCall("reset_to_default", cm.raised, None, None)
      /\ UNCHANGED <<messages, total_tokens_used, cpc, user_input, transmitted,
                     chatRes, turns, session_file, storeVars, retryVars, ctlVars>>

\* remove_custom_context up to and including del self.system_prompts[name]
RemoveDelete(name) ==
  /\ removing = None
  /\ IF remove_custom_context(ContextState, name).raised # None
       THEN /\ sessRes' = SessionCall("remove_custom_context",
                                      remove_custom_context(ContextState, name).raised,
                                      None, None)
            /\ UNCHANGED <<system_prompts, removing>>
       ELSE /\ system_prompts' = DictDel(system_prompts, name)
            /\ removing' = name
            /\ UNCHANGED sessRes
  /\ UNCHANGED <<active_context, context_history, messages, total_tokens_used, cpc,
                 user_input, transmitted, chatRes, turns, session_file, storeVars,
                 retryVars, is_processing, tasks, sweeps, cancelled,
                 custom_base_delay>>

\* remove_custom_context from the test of active_context to its return
RemoveFinish ==
  /\ removing # None
  /\ LET cm == IF active_context = removing
                 THEN set_context(ContextState, "general")
                 ELSE ContextState
     IN  /\ AssignContext(cm)
         /\ sessRes' = SessionCall("remove_custom_context", cm.raised, None, None)
  /\ removing' = None
  /\ UNCHANGED <<messages, total_tokens_used, cpc, user_input, transmitted, chatRes,
                 turns, session_file, storeVars, retryVars, is_processing, tasks,
                 sweeps, cancelled, custom_base_delay>>

SaveSession ==
  LET r == save_session(session_file, messages, total_tokens_used, ContextState)
  IN  /\ cpc = "idle"
      /\ session_file' = r.file
      /\ sessRes' = SessionCall("save_session", r.raised, None, None)
      /\ UNCHANGED <<messages, total_tokens_used, active_context, cpc, user_input,
                     transmitted, chatRes, turns, system_prompts, context_history,
                     storeVars, retryVars, ctlVars>>

\* session = ChatSession.load_session(filename): the caller goes on with the
\* instance returned
LoadSession ==
  /\ cpc = "idle"
  /\ IF session_file = NoFile
       THEN /\ sessRes' = SessionCall("load_session", "FileNotFoundError", None, None)
            /\ UNCHANGED <<messages, total_tokens_used, active_context,
                           system_prompts, context_history, ctlVars>>
       ELSE LET r == RestoredSession(session_file)
            IN  /\ sessRes' = SessionCall("load_session", r.raised, None, None)
                /\ IF r.raised # None
                     THEN UNCHANGED <<messages, total_tokens_used, active_context,
                                      system_prompts, context_history, ctlVars>>
                     ELSE /\ messages' = r.messages
                          /\ total_tokens_used' = r.total_tokens_used
                          /\ AssignContext(r.cm)
  /\ UNCHANGED <<cpc, user_input, transmitted, chatRes, turns, session_file,
                 storeVars, retryVars, ctlVars>>

\* ---- what the holder of a session object does to it ----
\* messages per stored session
MaxStoredLog == 1

\* sessions[name].add_message("user", content, metadata)
SessionAddMessage(name, content, metadata) ==
  /\ DictHas(sessions, name)
  /\ Len(DictGet(sessions, name).messages) < MaxStoredLog
  /\ LET session == DictGet(sessions, name)
     IN  sessions' = DictSet(sessions, name,
                       [session EXCEPT !.messages =
                          add_message(session.messages, "user", content, metadata)])
  /\ UNCHANGED <<current_session, last_active, files, now, storeRes,
                 retryVars, chatVars, ctlVars>>

\* sessions[name].context_manager: add_custom_context, then set_context to it
SessionUseCustomContext(name, prompt) ==
  /\ DictHas(sessions, name)
  /\ LET session == DictGet(sessions, name)
     IN  sessions' = DictSet(sessions, name,
                       [session EXCEPT
                          !.custom = DictSet(session.custom, CustomContext, prompt),
                          !.context = CustomContext])
  /\ UNCHANGED <<current_session, last_active, files, now, storeRes,
                 retryVars, chatVars, ctlVars>>

\* the program is started again: a new ConversationManager over storage_dir
Restart ==
  \E order \in ListDirs(files) :
    LET st == Constructed(files, order)
    IN  /\ Assign(st)
        /\ storeRes' = Record("__init__", <<>>, [st EXCEPT !.raised = None, !.ret = None])
        /\ UNCHANGED <<files, now, retryVars, chatVars, ctlVars>>

(***************************************************************************)
(* Specifications                                                          *)
(***************************************************************************)
\* a manager constructed over whatever an earlier run left in storage_dir
StoreInit ==
  \E disk \in InitialDisks : \E order \in ListDirs(disk) :
    LET st == Constructed(disk, order)
    IN  /\ sessions = st.sessions
        /\ current_session = st.current_session
        /\ last_active = st.last_active
        /\ files = disk
        /\ storeRes = [op |-> "__init__", args |-> <<>>, raised |-> None, ret |-> None]

\* a manager constructed over an empty storage_dir
StoreFresh ==
  LET st == Constructed([n \in Names |-> NoFile], <<>>)
  IN  /\ sessions = st.sessions
      /\ current_session = st.current_session
      /\ last_active = st.last_active
      /\ files = [n \in Names |-> NoFile]
      /\ storeRes = [op |-> "__init__", args |-> <<>>, raised |-> None, ret |-> None]

ChatIdle ==
  /\ messages = <<>> /\ total_tokens_used = 0 /\ active_context = "general"
  /\ cpc = "idle" /\ user_input = <<>> /\ transmitted = <<>> /\ turns = 0
  /\ chatRes = [kind |-> "none", error |-> FALSE, text |-> <<>>]
  /\ system_prompts = DefaultPrompts /\ context_history = <<>>
  /\ session_file = NoFile
  /\ sessRes = SessionCall("__init__", None, None, None)

\* no save_all_sessions or load_all_sessions is running
NoSweep ==
  [saving |-> FALSE, pos |-> 0, size |-> 0, saved |-> 0,
   loading |-> FALSE, todo |-> <<>>, loaded |-> 0]

\* ChatController.__init__, and nobody calling the components yet
ControllerIdle ==
  /\ is_processing = FALSE
  /\ tasks = <<>>
  /\ sweeps = NoSweep
  /\ cancelled = FALSE
  /\ custom_base_delay = 0
  /\ removing = None

\* ---- save_all_sessions and load_all_sessions called from two threads ----
\* a thread enters save_all_sessions: the for statement takes an iterator of
\* self.sessions
BeginSaveAll ==
  /\ ~sweeps.saving
  /\ sweeps' = [sweeps EXCEPT !.saving = TRUE, !.pos = 1, !.size = Len(sessions),
                              !.saved = 0]
  /\ UNCHANGED <<is_processing, removing, tasks, cancelled, custom_base_delay, storeVars, retryVars, chatVars>>

\* one turn of the loop of save_all_sessions: the dict iterator raises
\* RuntimeError when the dict changed size, ends the loop when exhausted, and
\* otherwise yields the next name, which save_session writes or fails to write
SaveAllStep ==
  /\ sweeps.saving
  /\ IF Len(sessions) # sweeps.size
       THEN /\ sweeps' = [sweeps EXCEPT !.saving = FALSE]
            /\ storeRes' = [op |-> "save_all_sessions", args |-> <<>>,
                            raised |-> "RuntimeError", ret |-> None]
            /\ UNCHANGED files
     ELSE IF sweeps.pos > Len(sessions)
       THEN /\ sweeps' = [sweeps EXCEPT !.saving = FALSE]
            /\ storeRes' = [op |-> "save_all_sessions", args |-> <<>>,
                            raised |-> None, ret |-> None]
            /\ UNCHANGED files
     ELSE \E fails \in BOOLEAN :
            LET name == sessions[sweeps.pos].k
            IN  /\ files' = IF fails THEN files
                            ELSE [files EXCEPT ![name] =
                                    SessionData(name, DictGet(sessions, name),
                                                DictGet(last_active, name))]
                /\ sweeps' = [sweeps EXCEPT !.pos = @ + 1, !.saved = @ + 1]
                /\ UNCHANGED storeRes
  /\ UNCHANGED <<is_processing, removing, tasks, cancelled, custom_base_delay, sessions, current_session,
                 last_active, now, retryVars, chatVars>>

\* a thread enters load_all_sessions: os.listdir returns the list of files
BeginLoadAll ==
  /\ ~sweeps.loading
  /\ \E order \in ListDirs(files) :
       sweeps' = [sweeps EXCEPT !.loading = TRUE, !.todo = order, !.loaded = 0]
  /\ UNCHANGED <<is_processing, removing, tasks, cancelled, custom_base_delay, storeVars, retryVars, chatVars>>

\* one turn of the loop of load_all_sessions: the next listed file is loaded, a
\* failure is logged
LoadAllStep ==
  /\ sweeps.loading
  /\ IF sweeps.todo = <<>>
       THEN /\ sweeps' = [sweeps EXCEPT !.loading = FALSE]
            /\ storeRes' = [op |-> "load_all_sessions", args |-> <<>>,
                            raised |-> None, ret |-> None]
            /\ UNCHANGED <<sessions, current_session, last_active>>
       ELSE LET st == load_session(StoreState, Head(sweeps.todo), files)
            IN  /\ Assign(st)
                /\ sweeps' = [sweeps EXCEPT !.todo = Tail(@), !.loaded = @ + 1]
                /\ UNCHANGED storeRes
  /\ UNCHANGED <<is_processing, removing, tasks, cancelled, custom_base_delay, files, now, retryVars, chatVars>>

\* ---- ChatController: the handlers of SEND_MESSAGE and FILE_ATTACH ----
\* handler coroutines explored
MaxSubmits == 3

\* what process_image_message appends: the text block and the object that the
\* un-awaited prepare_image_content returned
CoroutineBlocks == <<"{type: text}", "<coroutine prepare_image_content>">>

\* sessions with a message appended to the log of session name
WithMessage(dict, name, role, content, metadata) ==
  LET session == DictGet(dict, name)
  IN  DictSet(dict, name,
        [session EXCEPT !.messages =
           add_message(session.messages, role, content, metadata)])

\* a SEND_MESSAGE or FILE_ATTACH event reaches the controller: the handler
\* coroutine exists and waits for the event loop to run it
Submit(kind) ==
  /\ Len(tasks) < MaxSubmits
  /\ tasks' = Append(tasks, [kind |-> kind, pc |-> "scheduled", session |-> None,
                             attempt |-> 0])
  /\ UNCHANGED <<is_processing, removing, sweeps, cancelled, custom_base_delay, storeVars, retryVars, chatVars>>

\* _handle_send_message from its first line to the await of the remote call
\* inside session.get_response
HandleSendMessage(i) ==
  /\ i \in 1..Len(tasks)
  /\ tasks[i].kind = "send" /\ tasks[i].pc = "scheduled"
  /\ IF is_processing
       THEN /\ tasks' = [tasks EXCEPT ![i].pc = "ignored"]
            /\ UNCHANGED <<is_processing, sessions, current_session, last_active>>
       ELSE LET st == get_current_session(StoreState)
            IN  IF st.raised # None
                  THEN /\ Assign(st)
                       /\ is_processing' = FALSE
                       /\ tasks' = [tasks EXCEPT ![i].pc = "failed"]
                  ELSE /\ sessions' = WithMessage(st.sessions, st.ret, "user", Hello, None)
                       /\ current_session' = st.current_session
                       /\ last_active' = st.last_active
                       /\ is_processing' = TRUE
                       /\ tasks' = [tasks EXCEPT ![i].pc = "calling",
                                                 ![i].session = st.ret]
  /\ UNCHANGED <<removing, sweeps, cancelled, custom_base_delay, files, now, storeRes,
                 retryVars, chatVars>>

\* _handle_file_attach from its first line to the await of the remote call
\* inside session.process_image_message
HandleFileAttach(i) ==
  /\ i \in 1..Len(tasks)
  /\ tasks[i].kind = "attach" /\ tasks[i].pc = "scheduled"
  /\ LET st == get_current_session(StoreState)
     IN  IF st.raised # None
           THEN /\ Assign(st)
                /\ tasks' = [tasks EXCEPT ![i].pc = "failed"]
           ELSE /\ sessions' = WithMessage(st.sessions, st.ret, "user",
                                           CoroutineBlocks, ImageMeta)
                /\ current_session' = st.current_session
                /\ last_active' = st.last_active
                /\ tasks' = [tasks EXCEPT ![i].pc = "calling", ![i].session = st.ret]
  /\ UNCHANGED <<is_processing, removing, sweeps, cancelled, custom_base_delay, files, now, storeRes,
                 retryVars, chatVars>>

\* the remote call of handler i ends: with a completion, with an error that
\* ends async_retry, or with one after which async_retry sleeps
RemoteCallEnds(i, how) ==
  /\ i \in 1..Len(tasks)
  /\ tasks[i].pc = "calling"
  /\ how = "retry" => tasks[i].attempt < SelfMaxRetries - 1
  /\ sessions' = IF how = "returned"
                   THEN WithMessage(sessions, tasks[i].session, "assistant",
                                    <<"fine">>, None)
                   ELSE sessions
  /\ tasks' = IF how = "retry"
                THEN [tasks EXCEPT ![i].pc = "waiting", ![i].attempt = @ + 1]
                ELSE [tasks EXCEPT ![i].pc = "done"]
  /\ is_processing' = IF how # "retry" /\ tasks[i].kind = "send"
                        THEN FALSE ELSE is_processing
  /\ UNCHANGED <<removing, sweeps, cancelled, custom_base_delay, current_session, last_active, files, now,
                 storeRes, retryVars, chatVars>>

\* asyncio.sleep of handler i is over: the next attempt of its remote call
TaskWake(i) ==
  /\ i \in 1..Len(tasks)
  /\ tasks[i].pc = "waiting"
  /\ tasks' = [tasks EXCEPT ![i].pc = "calling"]
  /\ UNCHANGED <<is_processing, removing, sweeps, cancelled, custom_base_delay, storeVars, retryVars, chatVars>>

\* ---- the session store ----
InitStore ==
  /\ now = 0
  /\ StoreInit
  /\ error_handlers = DefaultHandlers /\ RetryIdle
  /\ ChatIdle
  /\ ControllerIdle

NextStore ==
  \/ \E n \in Names : CreateNewSession(n)
  \/ GetCurrentSession
  \/ \E n \in Names : SwitchSession(n)
  \/ \E o \in Names, n \in Names : RenameSession(o, n)
  \/ \E a \in Names \cup {None} : DeleteSession(a)

SpecStore == InitStore /\ [][NextStore]_vars

\* ---- a RetryHandler driven directly ----
MaxCustomRetries == 4

Modes == {"async", "sync"}

InitRetry ==
  /\ now = 0
  /\ StoreFresh
  /\ error_handlers = DefaultHandlers /\ RetryIdle
  /\ ChatIdle
  /\ ControllerIdle

\* a caller that runs func through async_retry or the retry decorator
Register(key) == RegisterErrorHandler(key) /\ UNCHANGED <<storeVars, chatVars, ctlVars>>

Call(m, custom) == StartRetry(m, custom) /\ UNCHANGED <<storeVars, chatVars, ctlVars>>

Attempt(o) == Invoke(o) /\ UNCHANGED <<storeVars, chatVars, ctlVars>>

SleepOver == Wake /\ UNCHANGED <<storeVars, chatVars, ctlVars>>

Return == Finish /\ UNCHANGED <<storeVars, chatVars, ctlVars>>

NextRetry ==
  \/ \E k \in HandlerKeys : Register(k)
  \/ \E m \in Modes, c \in 0..MaxCustomRetries : Call(m, c)
  \/ \E o \in OpErrors \cup {Ok(<<"success">>)} : Attempt(o)
  \/ SleepOver
  \/ Return

SpecRetry == InitRetry /\ [][NextRetry]_vars

\* ---- one ChatSession answering get_response calls ----

InitChat ==
  /\ now = 0
  /\ StoreFresh
  /\ error_handlers = ChatHandlers /\ RetryIdle
  /\ ChatIdle
  /\ ControllerIdle

NextChat ==
  \/ \E i \in UserInputs : GetResponse(i)
  \/ \E o \in OpErrors \cup {Ok(c) : c \in Completions} : MakeRequest(o)
  \/ ChatWake
  \/ GetResponseReturn

SpecChat == InitChat /\ [][NextChat]_vars

\* ---- one ChatSession operated directly and saved to / loaded from its file ----
Roles == {"user", "assistant", "system"}

\* the (content, metadata) pairs add_message is called with
Payloads == {<<Hello, None>>, <<ImageBlocks, ImageMeta>>, <<NotContent, None>>}

ContextArgs == {"general", CustomContext, "nonexistent"}

Prompts == {"p1", "p2"}

InitSession ==
  /\ now = 0
  /\ StoreFresh
  /\ error_handlers = ChatHandlers /\ RetryIdle
  /\ ChatIdle
  /\ ControllerIdle

NextSession ==
  \/ \E r \in Roles, p \in Payloads : AddMessage(r, p[1], p[2])
  \/ \E c \in ContextArgs : SetContext(c)
  \/ \E n \in {CustomContext, "general"}, p \in Prompts : AddCustomContext(n, p)
  \/ SaveSession
  \/ LoadSession

SpecSession == InitSession /\ [][NextSession]_vars

\* ---- a ContextManager under any sequence of its four mutating calls ----
NextContext ==
  \/ \E c \in ContextArgs \cup {"teacher"} : SetContext(c)
  \/ \E n \in {CustomContext, "general"}, p \in Prompts : AddCustomContext(n, p)
  \/ \E n \in {CustomContext, "general", "nonexistent"} : RemoveCustomContext(n)
  \/ ResetToDefault

SpecContext == InitSession /\ [][NextContext]_vars

\* ---- remove_custom_context statement by statement ----
NextRemove ==
  \/ \E c \in ContextArgs : SetContext(c)
  \/ \E p \in Prompts : AddCustomContext(CustomContext, p)
  \/ \E n \in {CustomContext, "general", "nonexistent"} : RemoveDelete(n)
  \/ RemoveFinish

SpecRemove == InitSession /\ [][NextRemove]_vars

\* ---- a ContextManager whose context is set more often than max_history ----
NextHistory ==
  \/ \E c \in {"general", "teacher", "nonexistent"} : SetContextCall(c)
  \/ ResetToDefault

SpecHistory == InitSession /\ [][NextHistory]_vars

\* ---- a manager whose sessions are used, saved, and loaded by the next run ----
PersistNames == {"A"}

StoredPayloads == {<<Hello, None>>, <<ImageBlocks, ImageMeta>>}

InitPersist ==
  /\ now = 0
  /\ StoreFresh
  /\ error_handlers = DefaultHandlers /\ RetryIdle
  /\ ChatIdle
  /\ ControllerIdle

NextPersist ==
  \/ \E n \in PersistNames : CreateNewSession(n)
  \/ \E n \in Names, p \in StoredPayloads : SessionAddMessage(n, p[1], p[2])
  \/ \E n \in Names : SessionUseCustomContext(n, "p1")
  \/ SaveAllSessions
  \/ Restart

SpecPersist == InitPersist /\ [][NextPersist]_vars

\* ---- a manager constructed over an empty storage_dir ----
InitFresh ==
  /\ now = 0
  /\ StoreFresh
  /\ error_handlers = DefaultHandlers /\ RetryIdle
  /\ ChatIdle
  /\ ControllerIdle

NextFresh ==
  \/ \E n \in Names : CreateNewSession(n)
  \/ \E n \in Names : SwitchSession(n)
  \/ \E a \in Names \cup {None} : DeleteSession(a)
  \/ SaveAllSessions

SpecFresh == InitFresh /\ [][NextFresh]_vars

\* ---- the controller under any arrival of submit events ----
SubmitKinds == {"send", "attach"}

NextController ==
  \/ \E k \in SubmitKinds : Submit(k)
  \/ \E i \in 1..MaxSubmits : HandleSendMessage(i)
  \/ \E i \in 1..MaxSubmits : HandleFileAttach(i)
  \/ \E i \in 1..MaxSubmits, how \in {"returned", "raised", "retry"} : RemoteCallEnds(i, how)
  \/ \E i \in 1..MaxSubmits : TaskWake(i)

SpecController == InitChat /\ [][NextController]_vars

\* ---- ChatSession.process_image_message ----
\* image paths handed in: one validate_image accepts, one whose extension is
\* not supported
ImagePaths == {"cat.png", "notes.txt"}

\* VisionHandler.validate_image
validate_image(image_path) == image_path = "cat.png"

\* the metadata argument {"image_path": image_path}
ImageMetaOf(image_path) ==
  IF image_path = "cat.png" THEN ImageMeta ELSE "{image_path: notes.txt}"

\* the except branch of process_image_message
ImageError(cls) ==
  [kind |-> "returned", error |-> TRUE, text |-> <<"process_image_message failed:", cls>>]

\* process_image_message up to the first invocation of make_request:
\* prepare_image_content is a coroutine function called without await, so the
\* call returns a coroutine object and validate_image is not run
ProcessImageMessage(message, image_path) ==
  /\ cpc = "idle"
  /\ turns < MaxTurns
  /\ messages' = add_message(messages, "user", CoroutineBlocks, ImageMetaOf(image_path))
  /\ user_input' = <<message, image_path>>
  /\ transmitted' = <<>>
  /\ turns' = turns + 1
  /\ cpc' = "retry"
  /\ StartRetry("async", 0)
  /\ UNCHANGED <<total_tokens_used, active_context, chatRes, ctxVars, storeVars, ctlVars>>

\* process_image_message after async_retry returned or raised
ProcessImageReturn ==
  /\ cpc = "retry"
  /\ Finish
  /\ cpc' = "idle"
  /\ IF outcome.kind = "returned"
       THEN /\ messages' = add_message(messages, "assistant", outcome.val.text, None)
            /\ chatRes' = IF FormatRaises(outcome.val.text)
                            THEN ImageError("ClassNotFound")
                            ELSE [kind |-> "returned", error |-> FALSE,
                                  text |-> format_response(outcome.val.text)]
       ELSE /\ chatRes' = ImageError(outcome.val.cls)
            /\ UNCHANGED messages
  /\ UNCHANGED <<total_tokens_used, active_context, user_input, transmitted, turns,
                 ctxVars, storeVars, ctlVars>>

NextImage ==
  \/ \E p \in ImagePaths : ProcessImageMessage("hi", p)
  \/ \E o \in OpErrors \cup {Ok(c) : c \in Completions} : MakeRequest(o)
  \/ ChatWake
  \/ ProcessImageReturn

SpecImage == InitChat /\ [][NextImage]_vars

\* ---- the same call through the decorator and through async_retry ----
\* a per-call base delay of 0.5 s, in ms
CustomBaseDelay == 500

\* the operation: a function without parameters, as make_request is
TypeError == Out("TypeError", 0, 0, <<>>)

\* retry(custom_max_retries, custom_base_delay)(func)() for "sync";
\* async_retry(func, custom_max_retries=..., custom_base_delay=...) for "async"
RetryCall(m, cmr, cbd) ==
  /\ StartRetry(m, cmr)
  /\ custom_base_delay' = cbd
  /\ UNCHANGED <<is_processing, removing, tasks, sweeps, cancelled, storeVars, chatVars>>

\* the body of the for loop, the same text in async_retry and in wrapper: the
\* operation was about to do offered, the try block saw seen
LoopBody(offered, seen) ==
  /\ rpc = "call"
  /\ history' = Append(history, offered)
  /\ IF seen.cls = "ok"
       THEN /\ outcome' = [kind |-> "returned", val |-> seen]
            /\ rpc' = "done"
            /\ UNCHANGED <<handler_calls, waits, sleeping>>
       ELSE /\ handler_calls' = handler_calls \o HandlerCall(error_handlers, seen, attempt)
            /\ IF Decide(error_handlers, seen, attempt, max_retries) = "sleep"
                 THEN /\ waits' = Append(waits, calculate_delay(attempt, seen))
                      /\ \E j \in JitterPermille :
                           sleeping' = (calculate_delay(attempt, seen) * j) \div 1000
                      /\ rpc' = "sleep"
                      /\ outcome' = outcome
                 ELSE /\ outcome' = [kind |-> "raised", val |-> seen]
                      /\ rpc' = "done"
                      /\ UNCHANGED <<waits, sleeping>>
  /\ UNCHANGED <<error_handlers, mode, max_retries, attempt>>

\* async_retry: await func(*args, **kwargs); a custom_base_delay keyword is no
\* parameter of async_retry, lands in kwargs and is handed to func
AsyncAttempt(o) ==
  /\ mode = "async"
  /\ LoopBody(o, IF custom_base_delay # 0 THEN TypeError ELSE o)
  /\ UNCHANGED <<storeVars, chatVars, ctlVars>>

\* wrapper: func(*args, **kwargs); the local base_delay is computed and not used
SyncAttempt(o) ==
  /\ mode = "sync"
  /\ LoopBody(o, o)
  /\ UNCHANGED <<storeVars, chatVars, ctlVars>>

ModeOutcomes ==
  {Out("APIError", 429, 0, <<>>), Out("APIError", 401, 0, <<>>),
   Out("ConnectionError", 0, 0, <<>>), Ok(<<"success">>)}

NextModes ==
  \/ \E m \in Modes, cmr \in {0, 2}, cbd \in {0, CustomBaseDelay} : RetryCall(m, cmr, cbd)
  \/ \E o \in ModeOutcomes : AsyncAttempt(o)
  \/ \E o \in ModeOutcomes : SyncAttempt(o)
  \/ SleepOver
  \/ Return

SpecModes == InitRetry /\ [][NextModes]_vars

\* ---- a retried call whose caller gives it up during a wait ----
\* the caller abandons the call while the loop sleeps: the task that awaits
\* asyncio.sleep is cancelled and CancelledError leaves async_retry; the thread
\* in time.sleep has nothing that tells it
CancelWait ==
  /\ rpc = "sleep" /\ ~cancelled
  /\ cancelled' = TRUE
  /\ IF mode = "async"
       THEN /\ rpc' = "done"
            /\ sleeping' = 0
            /\ outcome' = [kind |-> "raised", val |-> Out("CancelledError", 0, 0, <<>>)]
       ELSE UNCHANGED <<rpc, sleeping, outcome>>
  /\ UNCHANGED <<error_handlers, mode, max_retries, attempt, history, handler_calls,
                 waits, is_processing, removing, tasks, sweeps, custom_base_delay,
                 storeVars, chatVars>>

\* the caller has the result or the error of the call it made
CallOver ==
  /\ Finish
  /\ cancelled' = FALSE
  /\ UNCHANGED <<is_processing, removing, tasks, sweeps, custom_base_delay, storeVars, chatVars>>

NextCancel ==
  \/ \E m \in Modes : Call(m, 0)
  \/ \E o \in ModeOutcomes : Attempt(o)
  \/ SleepOver
  \/ CancelWait
  \/ CallOver

SpecCancel == InitRetry /\ [][NextCancel]_vars

\* ---- calculate_delay called on its own ----
\* attempt indices explored: the delay reaches max_delay at attempt 6
MaxAttempt == 7

\* the error argument: None, the errors of the runs, and errors other than a
\* rate limit that carry a retry_after
DelayErrors ==
  Errors \cup {Nothing, Out("APIError", 503, RetryAfterHint, <<>>),
               Out("TimeoutError", 0, RetryAfterHint, <<>>)}

\* calculate_delay(att, error=e, jitter=jitter): the arguments, the delay before
\* the jitter and the value returned
CalculateDelay(att, e, jitter) ==
  /\ attempt' = att
  /\ history' = <<e>>
  /\ waits' = <<calculate_delay(att, e)>>
  /\ IF jitter
       THEN \E j \in JitterPermille :
              sleeping' = (calculate_delay(att, e) * j) \div 1000
       ELSE sleeping' = calculate_delay(att, e)
  /\ UNCHANGED <<error_handlers, mode, max_retries, rpc, handler_calls, outcome,
                 storeVars, chatVars, ctlVars>>

NextDelay ==
  \E att \in 0..MaxAttempt, e \in DelayErrors, jitter \in BOOLEAN :
    CalculateDelay(att, e, jitter)

SpecDelay == InitRetry /\ [][NextDelay]_vars

\* ---- one manager whose store-wide calls come from two threads ----
NextSweep ==
  \/ \E n \in PersistNames : CreateNewSession(n)
  \/ \E n \in Names, p \in StoredPayloads : SessionAddMessage(n, p[1], p[2])
  \/ BeginSaveAll
  \/ SaveAllStep
  \/ BeginLoadAll
  \/ LoadAllStep

SpecSweep == InitFresh /\ [][NextSweep]_vars

\* ---- a manager over a directory of readable and unreadable files, reloaded ----
LoadDisks ==
  {d \in [Names -> UNION {InitialFiles(n) \cup {Malformed} : n \in Names}] :
     \A n \in Names : d[n] \in InitialFiles(n) \cup {Malformed}}

InitLoad ==
  /\ now = 0
  /\ \E disk \in LoadDisks : \E order \in ListDirs(disk) :
       LET st == Constructed(disk, order)
       IN  /\ sessions = st.sessions
           /\ current_session = st.current_session
           /\ last_active = st.last_active
           /\ files = disk
           /\ storeRes = [op |-> "__init__", args |-> <<>>, raised |-> None,
                          ret |-> None]
  /\ error_handlers = DefaultHandlers /\ RetryIdle
  /\ ChatIdle
  /\ ControllerIdle

NextLoad ==
  \/ \E n \in Names : CreateNewSession(n)
  \/ \E n \in Names, p \in StoredPayloads : SessionAddMessage(n, p[1], p[2])
  \/ LoadAllSessions

SpecLoad == InitLoad /\ [][NextLoad]_vars

\* ---- a manager in use over several days, with retention cleanup ----
\* storage_dir as an earlier run that saved plain sessions left it
CleanupDisks ==
  {d \in InitialDisks :
     \A n \in Names : d[n] \in {NoFile, SessionData(n, NewChatSession(n), 0)}}

InitCleanup ==
  /\ now = 0
  /\ \E disk \in CleanupDisks : \E order \in ListDirs(disk) :
       LET st == Constructed(disk, order)
       IN  /\ sessions = st.sessions
           /\ current_session = st.current_session
           /\ last_active = st.last_active
           /\ files = disk
           /\ storeRes = [op |-> "__init__", args |-> <<>>, raised |-> None, ret |-> None]
  /\ error_handlers = DefaultHandlers /\ RetryIdle
  /\ ChatIdle
  /\ ControllerIdle

NextCleanup ==
  \/ Tick
  \/ \E n \in Names : CreateNewSession(n)
  \/ \E n \in Names : SwitchSession(n)
  \/ \E d \in 0..1 : CleanupOldSessions(d)

SpecCleanup == InitCleanup /\ [][NextCleanup]_vars

(***************************************************************************)
(* Properties                                                              *)
(***************************************************************************)
\* C1: after any sequence of create_new_session, switch_session,
\* rename_session and delete_session calls on a constructed manager,
\* sessions is non-empty and current_session is one of its keys.
C1_StoreNeverEmptyCurrentValid ==
  storeRes.op \in {"create_new_session", "switch_session", "rename_session",
                   "delete_session"}
    => (Len(sessions) > 0 /\ current_session \in DictKeys(sessions))

\* C2: directly after construction over a directory with at least one
\* loadable session file, sessions is non-empty and current_session is a key.
C2_CurrentValidAfterStartupLoad ==
  (storeRes.op = "__init__" /\ \E n \in Names : Loadable(files[n]))
    => (sessions # <<>> /\ DictHas(sessions, current_session))

\* C3: get_current_session called while current_session is unset or names no
\* session does not raise, returns a session of the store, and leaves
\* current_session naming the session it returned.
C3_GetCurrentSelfHealing ==
  [][((current_session = None \/ ~DictHas(sessions, current_session))
        /\ storeRes'.op = "get_current_session")
       => (/\ storeRes'.raised = None
           /\ DictHas(sessions', storeRes'.ret)
           /\ current_session' = storeRes'.ret)]_vars

\* every failure before the last invocation so far was one the handler retries
AllRetryable(h) ==
  \A i \in 1..Len(h) : h[i].cls # "ok" /\ is_retryable_error(error_handlers, h[i])

\* C4: k < max_retries retryable failures are each followed by a further
\* invocation, and a success at invocation k+1 ends the call at once with
\* that result: k+1 invocations, none after the success. Both modes.
C4_SuccessAfterRetryableErrors ==
  /\ (history # <<>> /\ AllRetryable(history) /\ Len(history) < max_retries)
       => (rpc \in {"sleep", "call"} /\ outcome.kind = "none")
  /\ \A i \in 1..Len(history) :
       history[i].cls = "ok"
         => /\ i = Len(history)
            /\ attempt = i - 1
            /\ rpc = "done"
            /\ outcome = [kind |-> "returned", val |-> history[i]]

C4_Witness ==
  /\ rpc = "done" /\ mode = "sync" /\ Len(history) = 3
  /\ AllRetryable(SubSeq(history, 1, 2))
  /\ outcome = [kind |-> "returned", val |-> Ok(<<"success">>)]

C6_ExhaustedAfterMaxRetries ==
  (history # <<>> /\ AllRetryable(history))
    => /\ Len(history) <= max_retries
       /\ Len(history) < max_retries
            => (rpc \in {"sleep", "call"} /\ Len(waits) = Len(history))
       /\ Len(history) = max_retries
            => /\ rpc = "done"
               /\ sleeping = 0
               /\ Len(waits) = max_retries - 1
               /\ outcome = [kind |-> "raised", val |-> history[Len(history)]]

C6_Witness ==
  /\ rpc = "done" /\ max_retries = SelfMaxRetries
  /\ Len(history) = SelfMaxRetries /\ AllRetryable(history)
  /\ Len(waits) = SelfMaxRetries - 1
  /\ outcome.kind = "raised"

\* the rule of the specification: rate limit, 5xx, connection and timeout
FixedRule(e) ==
  \/ e.cls = "APIError" /\ e.status_code \in {429, 500, 502, 503, 504}
  \/ e.cls \in {"ConnectionError", "TimeoutError"}

\* C7: is_retryable_error depends on the error alone: statuses 429, 500,
\* 502, 503, 504 and connection/timeout errors are retryable, statuses 400,
\* 401, 404 and every other kind (a ValueError) are not.
C7_RetryableIsFixedRule ==
  \A e \in Errors : is_retryable_error(error_handlers, e) = FixedRule(e)

\* the run of the call as the caller observes it
Observed == [calls |-> Len(history), waits |-> waits, outcome |-> outcome]

\* C8: handlers only observe: a finished call made the invocations, waits
\* and outcome that the same operation outcomes give with no handler
\* registered.
C8_HandlersOnlyObserve ==
  rpc = "done" => Observed = Replay(<<>>, history, max_retries, 0, <<>>)

\* C9: get_response does not raise: when async_retry ends with an error,
\* get_response returns the error message as its value.
C9_TerminalFailureReturnsErrorText ==
  [][(cpc = "retry" /\ cpc' = "idle")
       => /\ chatRes'.kind = "returned"
          /\ outcome.kind = "raised"
               => chatRes' = [kind |-> "returned", error |-> TRUE,
                              text |-> ErrorMessage(outcome.val.cls)]]_vars

C9_Witness ==
  /\ cpc = "idle" /\ turns = 1
  /\ chatRes = [kind |-> "returned", error |-> TRUE,
                text |-> ErrorMessage("APIError")]
  /\ Len(messages) = 1

NoAdjacentSameRole(ms) ==
  \A i \in 1..(Len(ms) - 1) : ms[i].role # ms[i + 1].role

\* C10: no list of messages handed to the remote service holds two adjacent
\* entries of the same role (consecutive user messages go out merged).
C10_TransmittedRolesAlternate ==
  \A r \in 1..Len(transmitted) : NoAdjacentSameRole(transmitted[r].messages)

\* C11: add_message with a role other than user or assistant fails with
\* InvalidRole, with content that is neither text nor a list of content
\* blocks it fails with InvalidContent, and in both cases the log is unchanged.
C11_AddMessageRejectsInvalid ==
  [][sessRes'.op = "add_message"
       => /\ sessRes'.role \notin {"user", "assistant"}
               => (sessRes'.raised = "InvalidRole" /\ messages' = messages)
          /\ (sessRes'.role \in {"user", "assistant"}
                /\ sessRes'.ctype \notin {"str", "list"})
               => (sessRes'.raised = "InvalidContent" /\ messages' = messages)]_vars

\* C12: save_session of a session with N messages and a custom context set
\* active by set_context succeeds and writes that state; load_session of the
\* saved data succeeds and yields the same messages in order, the same active
\* context and the same custom-context prompts.
C12_SessionRoundTrip ==
  [][/\ (sessRes'.op = "save_session" /\ active_context \notin DEFAULT_CONTEXTS)
          => /\ sessRes'.raised = None
             /\ session_file' # NoFile
             /\ session_file'.messages = messages
             /\ session_file'.active_context = active_context
             /\ session_file'.custom_contexts = CustomContexts(system_prompts)
     /\ (sessRes'.op = "load_session" /\ session_file # NoFile)
          => /\ sessRes'.raised = None
             /\ messages' = session_file.messages
             /\ active_context' = session_file.active_context
             /\ CustomContexts(system_prompts') = session_file.custom_contexts]_vars

\* what a session holds that the round trip is about
SessionContent(session) ==
  [messages |-> session.messages, context |-> session.context,
   custom |-> session.custom]

\* C13: a manager constructed over the directory right after save_all
\* holds, for every session saved, a session of that name with the same
\* messages (role, content, metadata), active context and custom contexts,
\* also when the active context is a custom one.
C13_StoreRoundTrip ==
  [][(storeRes.op = "save_all_sessions" /\ storeRes'.op = "__init__")
       => \A k \in DictKeys(sessions) :
            files[k] = SessionData(k, DictGet(sessions, k), DictGet(last_active, k))
              => /\ DictHas(sessions', k)
                 /\ SessionContent(DictGet(sessions', k))
                      = SessionContent(DictGet(sessions, k))]_vars

\* C14: delete_session on a manager that holds exactly one session, called
\* with that session's name or with no name, fails with "Cannot delete the
\* last session" and leaves sessions, current_session, last_active and the
\* session's file unchanged.
C14_LastSessionNeverDeleted ==
  [][(/\ Len(sessions) = 1
      /\ storeRes'.op = "delete_session"
      /\ storeRes'.args[1] \in {DictFirst(sessions), None})
       => /\ storeRes'.raised = LastSession
          /\ sessions' = sessions
          /\ current_session' = current_session
          /\ last_active' = last_active
          /\ files'[DictFirst(sessions)] = files[DictFirst(sessions)]]_vars

\* the manager right after create_new_session(a), create_new_session(b),
\* switch_session(a) on a newly constructed one, a and b new names
AfterCreateCreateSwitch(a, b) ==
  /\ a # b /\ a # DefaultSessionName /\ b # DefaultSessionName
  /\ [i \in 1..Len(sessions) |-> sessions[i].k] = <<DefaultSessionName, a, b>>
  /\ current_session = a
  /\ storeRes.op = "switch_session" /\ storeRes.args = <<a>>

\* C15 as stated: after create(A), create(B), switch(A), delete(A) on a newly
\* constructed manager, current_session is B, A is no key of sessions and no
\* file for A exists.
C15_DeleteCurrentMakesBCurrent ==
  [][\A a, b \in Names :
       (AfterCreateCreateSwitch(a, b)
          /\ storeRes'.op = "delete_session" /\ storeRes'.args = <<a>>)
         => /\ current_session' = b
            /\ ~DictHas(sessions', a)
            /\ files'[a] = NoFile]_vars

\* C15 amended: after that scenario current_session is the first remaining
\* session in insertion order, which is "Default Session" (created by the
\* constructor), B stays a session, A is no key of sessions and no file for
\* A exists.
C15_DeleteCurrentMakesFirstCurrent ==
  [][\A a, b \in Names :
       (AfterCreateCreateSwitch(a, b)
          /\ storeRes'.op = "delete_session" /\ storeRes'.args = <<a>>)
         => /\ storeRes'.raised = None
            /\ current_session' = DefaultSessionName
            /\ current_session' = DictFirst(sessions')
            /\ DictHas(sessions', b)
            /\ ~DictHas(sessions', a)
            /\ ~DictHas(last_active', a)
            /\ files'[a] = NoFile]_vars

C15_Witness ==
  /\ storeRes = Record("delete_session", <<"A">>, [raised |-> None, ret |-> "A"])
  /\ [i \in 1..Len(sessions) |-> sessions[i].k] = <<DefaultSessionName, "B">>
  /\ current_session = DefaultSessionName
  /\ files["A"] = NoFile /\ files["B"] # NoFile

C18_SwitchSetsCurrentOrFails ==
  [][storeRes'.op = "switch_session"
       => LET name == storeRes'.args[1]
          IN  IF DictHas(sessions, name)
                THEN /\ storeRes'.raised = None
                     /\ current_session' = name
                     /\ sessions' = sessions
                     /\ files' = files
                ELSE /\ storeRes'.raised = NotFound
                     /\ current_session' = current_session
                     /\ sessions' = sessions
                     /\ last_active' = last_active
                     /\ files' = files]_vars

C18_Witness ==
  /\ storeRes = Record("switch_session", <<"B">>, [raised |-> None, ret |-> "B"])
  /\ Len(sessions) = 3
  /\ current_session = "B"

\* C19: rename_session(old, new) fails and changes nothing when old is no
\* key or new is one; otherwise it succeeds and the session, its last_active
\* entry, current_session (if it was old) and the file (if old had one) are
\* re-keyed to new, nothing in memory or on disk staying keyed by old.
C19_RenameKeepsMemoryAndDiskConsistent ==
  [][storeRes'.op = "rename_session"
       => LET old == storeRes'.args[1]
              new == storeRes'.args[2]
          IN  IF ~DictHas(sessions, old) \/ DictHas(sessions, new)
                THEN /\ storeRes'.raised =
                          IF ~DictHas(sessions, old) THEN NotFound ELSE AlreadyExists
                     /\ sessions' = sessions
                     /\ current_session' = current_session
                     /\ last_active' = last_active
                     /\ files' = files
                ELSE /\ storeRes'.raised = None
                     /\ ~DictHas(sessions', old) /\ ~DictHas(last_active', old)
                     /\ DictHas(sessions', new) /\ DictHas(last_active', new)
                     /\ DictGet(sessions', new) = DictGet(sessions, old)
                     /\ DictGet(last_active', new) = DictGet(last_active, old)
                     /\ current_session' =
                          IF current_session = old THEN new ELSE current_session
                     /\ files'[old] = NoFile
                     /\ files[old] # NoFile => files'[new] = files[old]]_vars

\* C20: cleanup_old_sessions(days) deletes every session whose last_active
\* is more than days old, but never the last one: afterwards sessions is
\* non-empty, current_session is one of its keys, every session that was not
\* that old is still there, and one that was remains only as the sole session.
\* (A step that leaves the clock alone and ends with a cleanup recorded is a
\* cleanup_old_sessions call.)
C20_CleanupRemovesOldKeepsOne ==
  [][(storeRes'.op = "cleanup_old_sessions" /\ now' = now)
       => LET days == storeRes'.args[1]
              Old(n) == now - DictGet(last_active, n) > days
          IN  /\ Len(sessions') > 0
              /\ DictHas(sessions', current_session')
              /\ \A n \in DictKeys(sessions) : ~Old(n) => DictHas(sessions', n)
              /\ \A n \in DictKeys(sessions') :
                   DictHas(sessions, n) /\ (Old(n) => Len(sessions') = 1)]_vars

\* C21: save_all_sessions is best-effort per session: when the save of some
\* sessions fails, the call itself raises nothing and the file of every other
\* session holds that session as it is in memory.
C21_SaveAllIsBestEffort ==
  [][(storeRes'.op = "save_all_sessions" /\ sessions' = sessions
        /\ last_active' = last_active)
      => /\ storeRes'.raised = None
         /\ \A k \in DictKeys(sessions) :
              (\A i \in 1..Len(storeRes'.args) : storeRes'.args[i] # k)
                => files'[k] = SessionData(k, DictGet(sessions, k),
                                           DictGet(last_active, k))]_vars

\* a save_all_sessions in which the first session failed and never reached the
\* disk, while a later one was written
C21_Witness ==
  /\ storeRes.op = "save_all_sessions"
  /\ Len(sessions) >= 2
  /\ storeRes.args = <<sessions[1].k>>
  /\ files[sessions[1].k] = NoFile
  /\ files[sessions[2].k] = SessionData(sessions[2].k, sessions[2].v,
                                        DictGet(last_active, sessions[2].k))

\* C22: load_all_sessions never yields a blank or partial session: a file that
\* does not load (undecryptable, malformed, unknown context) leaves sessions and
\* last_active under its name as they were, and every loadable file is loaded
\* whatever else is in the directory.
C22_LoadAllSkipsBadFilesOnly ==
  [][LoadAllSessions
      => \A n \in Names :
           IF Loadable(files[n])
             THEN /\ DictHas(sessions', n) /\ DictHas(last_active', n)
                  /\ DictGet(sessions', n) = LoadedSession(n, files[n])
                  /\ DictGet(last_active', n) = files[n].last_active
             ELSE /\ DictHas(sessions', n) = DictHas(sessions, n)
                  /\ DictHas(last_active', n) = DictHas(last_active, n)
                  /\ DictHas(sessions, n)
                       => DictGet(sessions', n) = DictGet(sessions, n)
                  /\ DictHas(last_active, n)
                       => DictGet(last_active', n) = DictGet(last_active, n)]_vars

\* a reload over a directory with an unreadable file, whose name stayed out of
\* the manager, and a readable one, which was loaded
C22_Witness ==
  /\ storeRes.op = "load_all_sessions"
  /\ \E n, k \in Names :
       /\ files[n] \in {Corrupt, Malformed} /\ ~DictHas(sessions, n)
       /\ ~DictHas(last_active, n)
       /\ Loadable(files[k]) /\ DictGet(sessions, k) = LoadedSession(k, files[k])

\* C23: at most one remote call is in flight per conversation: no two handler
\* coroutines are inside the remote call of the same session at once.
C23_OneRemoteCallPerSession ==
  \A i, j \in 1..Len(tasks) :
    (i # j /\ tasks[i].pc = "calling" /\ tasks[j].pc = "calling")
      => tasks[i].session # tasks[j].session

\* a save_all_sessions that has saved a session and has more to go; the same
\* for load_all_sessions
SaveAllUnderWay ==
  sweeps.saving /\ sweeps.saved > 0 /\ sweeps.pos <= sweeps.size

LoadAllUnderWay ==
  sweeps.loading /\ sweeps.loaded > 0 /\ sweeps.todo # <<>>

\* C24: save_all_sessions and load_all_sessions exclude each other on one
\* manager: no turn of the loop of one runs between the first and the last turn
\* of the loop of the other.
C24_SaveAllLoadAllExclusive ==
  [][/\ sweeps'.loaded > sweeps.loaded => ~SaveAllUnderWay
     /\ sweeps'.saved > sweeps.saved => ~LoadAllUnderWay]_vars

\* the backoff by its recurrence: base_delay, then multiplied by
\* exponential_base per attempt, held at max_delay
RECURSIVE Backoff(_)
Backoff(n) ==
  IF n = 0 THEN Min(BaseDelay, MaxDelay)
  ELSE Min(Backoff(n - 1) * ExponentialBase, MaxDelay)

\* C25: calculate_delay(attempt, jitter=False) for an error without a
\* retry_after is min(base_delay * exponential_base^attempt, max_delay): it
\* never exceeds max_delay and never decreases from one attempt to the next.
C25_BackoffIsCappedExponential ==
  [][\A att \in 0..MaxAttempt, e \in {x \in DelayErrors : x.retry_after = 0} :
       CalculateDelay(att, e, FALSE)
         => /\ sleeping' = Backoff(att)
            /\ sleeping' <= MaxDelay
            /\ att > 0 => calculate_delay(att - 1, e) <= sleeping']_vars

\* the delay computed at an attempt where the exponential has passed max_delay
C25_Witness ==
  /\ attempt = MaxAttempt
  /\ history = <<Nothing>>
  /\ waits = <<MaxDelay>> /\ sleeping = MaxDelay
  /\ BaseDelay * Pow(ExponentialBase, attempt) > MaxDelay

\* C26: an error that carries a server-suggested wait time is waited for
\* exactly that time (before the jitter), whatever the attempt; an error
\* without one is waited for the exponential delay.
C26_HintOverridesBackoff ==
  (waits # <<>> /\ Len(history) = 1)
    => waits[1] = IF history[1].retry_after # 0
                    THEN history[1].retry_after
                    ELSE Backoff(attempt)

\* C27: the blocking and the suspending mode are equivalent: a finished call
\* made the invocations, waits and outcome that its configuration and the
\* outcomes of the operation determine, whichever the mode.
C27_ModesAreEquivalent ==
  rpc = "done" => Observed = Replay(error_handlers, history, max_retries, 0, <<>>)

\* C28: cooperative cancellation: once the caller has cancelled during the wait
\* between two attempts, the operation is not invoked again in that call.
C28_NoAttemptAfterCancel ==
  [][cancelled => Len(history') <= Len(history)]_vars

\* C29: process_image_message with an image that fails validation appends no
\* message and hands no request to the remote service.
C29_InvalidImageLeavesSessionAlone ==
  (Len(user_input) = 2 /\ ~validate_image(user_input[2]))
    => /\ \A i \in 1..Len(messages) :
            messages[i].metadata # ImageMetaOf(user_input[2])
       /\ transmitted = <<>>

\* C30: after any sequence of set_context, add_custom_context,
\* remove_custom_context and reset_to_default calls, failed ones included, the
\* active context is a key of system_prompts.
C30_ActiveContextIsRegistered ==
  DictHas(system_prompts, active_context)

\* the custom context was active when it was removed, and "general" took over
C30_Witness ==
  /\ sessRes.op = "remove_custom_context" /\ sessRes.raised = None
  /\ ~DictHas(system_prompts, CustomContext)
  /\ active_context = "general"
  /\ Len(context_history) >= 2
  /\ context_history[Len(context_history) - 1].context = CustomContext
  /\ context_history[Len(context_history)].context = "general"

\* C31: a failing ContextManager call changes nothing: set_context with an
\* unknown name, add_custom_context with a built-in name and
\* remove_custom_context with a built-in or absent name raise and leave
\* system_prompts, active_context and context_history as they were.
C31_FailedContextCallChangesNothing ==
  [][(SetContext("nonexistent")
        \/ (\E p \in Prompts : AddCustomContext("general", p))
        \/ (\E n \in {CustomContext, "general", "nonexistent"} :
              RemoveCustomContext(n) /\ sessRes'.raised # None))
      => /\ sessRes'.raised # None
         /\ system_prompts' = system_prompts
         /\ active_context' = active_context
         /\ context_history' = context_history]_vars

\* set_context("nonexistent") failed on a manager that holds a custom context,
\* has it active and has a history
C31_Witness ==
  /\ sessRes.op = "set_context" /\ sessRes.raised = UnknownContext
  /\ active_context = CustomContext
  /\ DictHas(system_prompts, CustomContext)
  /\ context_history # <<>>

\* the last n elements of a sequence
KeepLast(s, n) == IF Len(s) <= n THEN s ELSE SubSeq(s, Len(s) - n + 1, Len(s))

\* C32: context_history is bounded and ordered: it never holds more than
\* max_history entries, a successful set_context appends the entry of the
\* context it set at the end and drops the oldest entry when the bound would
\* be exceeded, and a failing set_context leaves it alone.
C32_HistoryIsBoundedAndOrdered ==
  [][/\ Len(context_history') <= max_history
     /\ \A c \in {"general", "teacher", "nonexistent"} :
          SetContextCall(c)
            => context_history' =
                 IF sessRes'.raised = None
                   THEN KeepLast(Append(context_history,
                                        [context |-> c, timestamp |-> now]),
                                 max_history)
                   ELSE context_history]_vars

\* a full history that ends in the context just set and still holds both
\* contexts that were set
C32_Witness ==
  /\ Len(context_history) = max_history
  /\ sessRes.op = "set_context" /\ sessRes.raised = None
  /\ context_history[max_history].context = active_context
  /\ context_history[1].context # context_history[max_history].context

\* C33: the built-in contexts are immutable: the five built-in names are keys
\* of system_prompts and map to their original prompts, whatever calls were
\* made.
C33_BuiltInsAreImmutable ==
  \A k \in DEFAULT_CONTEXTS :
    /\ DictHas(system_prompts, k)
    /\ DictGet(system_prompts, k) = DictGet(DefaultPrompts, k)

\* an add_custom_context on a built-in name was refused while a custom context
\* is registered
C33_Witness ==
  /\ sessRes.op = "add_custom_context" /\ sessRes.raised = ReservedName
  /\ DictHas(system_prompts, CustomContext)

\* C34: remove_custom_context of the active custom context sets the context to
\* "general" before it deletes the entry: once the entry is gone the active
\* context is no longer the removed name.
C34_SwitchesBeforeDelete ==
  removing # None => active_context # removing


\* ---- one session used for add_message, text turns and image turns ----
\* what the remote call does in these runs: a completion, one that
\* format_response fails on, an error that ends the call, one that is retried
LogOutcomes ==
  {Ok(<<"**fine**">>), Ok(BadFence), Out("APIError", 401, 0, <<>>),
   Out("ConnectionError", 0, 0, <<>>)}

NextLog ==
  \/ \E r \in {"user", "assistant"} : AddMessage(r, Hello, None)
  \/ \E i \in UserInputs : GetResponse(i)
  \/ \E p \in ImagePaths : ProcessImageMessage("hi", p)
  \/ \E o \in LogOutcomes : MakeRequest(o)
  \/ ChatWake
  \/ (user_input \in UserInputs /\ GetResponseReturn)
  \/ (user_input \notin UserInputs /\ ProcessImageReturn)

SpecLog == InitChat /\ [][NextLog]_vars

\* s is an initial segment of t
IsPrefix(s, t) == Len(s) <= Len(t) /\ SubSeq(t, 1, Len(s)) = s

\* C35: the message log is append-only: add_message, get_response and
\* process_image_message leave every message already in the log unchanged and
\* in place, and a get_response that succeeds has extended the log by exactly
\* two entries, the user message and then the assistant message that holds the
\* raw completion.
C35_LogIsAppendOnly ==
  [][/\ IsPrefix(messages, messages')
     /\ (\E i \in UserInputs : GetResponse(i))
          => messages' = Append(messages, [role |-> "user", content |-> user_input',
                                           metadata |-> None])
     /\ (cpc = "retry" /\ cpc' = "retry") => messages' = messages
     /\ (user_input \in UserInputs /\ GetResponseReturn /\ ~chatRes'.error)
          => /\ messages[Len(messages)] =
                  [role |-> "user", content |-> user_input, metadata |-> None]
             /\ messages' = Append(messages, [role |-> "assistant",
                                              content |-> outcome.val.text,
                                              metadata |-> None])]_vars

\* a second turn succeeded after a failed one: the log ends in the user message
\* and the raw completion, which is not the formatted text returned
C35_Witness ==
  /\ cpc = "idle" /\ ~chatRes.error /\ turns = 2
  /\ Len(messages) >= 3
  /\ messages[Len(messages) - 1] = [role |-> "user", content |-> user_input,
                                    metadata |-> None]
  /\ messages[Len(messages)].role = "assistant"
  /\ messages[Len(messages)].content = <<"**fine**">>
  /\ chatRes.text # messages[Len(messages)].content


\* C36: in a ChatSession, a failure of make_request that is not a rate-limit,
\* 5xx or connection/timeout error is never retried: it is the last invocation
\* of the call and the call ends with that error at once.
C36_TerminalErrorsAreNotRetried ==
  cpc = "retry"
    => \A i \in 1..Len(history) :
         (history[i].cls # "ok" /\ ~FixedRule(history[i]))
           => /\ i = Len(history)
              /\ rpc = "done"
              /\ outcome = [kind |-> "raised", val |-> history[i]]


\* ---- a manager on which every call that writes the two dicts is made ----
\* the names the calls are made with
AlignNames == {DefaultSessionName, "A"}

\* storage_dir as found: a plain session or nothing under the default name,
\* any file under "A"
AlignDisks ==
  {d \in InitialDisks :
     /\ d[DefaultSessionName] \in {NoFile, SessionData(DefaultSessionName,
                                             NewChatSession(DefaultSessionName), 0)}
     /\ d["B"] = NoFile}

InitAlign ==
  /\ now = 0
  /\ \E disk \in AlignDisks : \E order \in ListDirs(disk) :
       LET st == Constructed(disk, order)
       IN  /\ sessions = st.sessions
           /\ current_session = st.current_session
           /\ last_active = st.last_active
           /\ files = disk
           /\ storeRes = [op |-> "__init__", args |-> <<>>, raised |-> None, ret |-> None]
  /\ error_handlers = DefaultHandlers /\ RetryIdle
  /\ ChatIdle
  /\ ControllerIdle

NextAlign ==
  \/ Tick
  \/ \E n \in AlignNames : CreateNewSession(n)
  \/ \E n \in AlignNames : SwitchSession(n)
  \/ \E o \in AlignNames, n \in AlignNames : RenameSession(o, n)
  \/ \E a \in AlignNames \cup {None} : DeleteSession(a)
  \/ \E n \in AlignNames : ManagerLoadSession(n)
  \/ LoadAllSessions
  \/ \E d \in 0..1 : CleanupOldSessions(d)

SpecAlign == InitAlign /\ [][NextAlign]_vars

\* C37: the two dicts of the manager stay aligned: whatever create, switch,
\* rename, delete, load, load_all and cleanup calls were made, and however they
\* ended, last_active has the keys of sessions.
C37_LastActiveKeysAreSessionKeys ==
  DictKeys(last_active) = DictKeys(sessions)


\* a load_session failed on a manager that holds two sessions, one of them
\* renamed, some days after it was constructed
C37_Witness ==
  /\ storeRes.op = "load_session" /\ storeRes.raised # None
  /\ Len(sessions) = 2 /\ Len(last_active) = 2
  /\ \E i \in 1..2 : sessions[i].v.name # sessions[i].k
  /\ now > 0


\* C38: a session's own name is the key the manager holds it under, also after
\* rename_session.
C38_SessionNameIsItsKey ==
  \A i \in 1..Len(sessions) : sessions[i].v.name = sessions[i].k


\* ---- a session whose holder goes on using it while a turn is retried ----
\* add_message called by another coroutine while async_retry is in
\* asyncio.sleep
SuspendedAddMessage(role, content) ==
  /\ cpc = "retry" /\ rpc = "sleep"
  /\ Len(messages) < MaxLog
  /\ messages' = add_message(messages, role, content, None)
  /\ sessRes' = SessionCall("add_message", None, role, TypeOf(content))
  /\ UNCHANGED <<total_tokens_used, active_context, cpc, user_input, transmitted,
                 chatRes, turns, system_prompts, context_history, session_file,
                 storeVars, retryVars, ctlVars>>

\* context_manager.set_context called by another coroutine meanwhile
SuspendedSetContext(context_type) ==
  /\ cpc = "retry" /\ rpc = "sleep"
  /\ SetContext(context_type)

NextAttempts ==
  \/ \E i \in UserInputs : GetResponse(i)
  \/ \E o \in LogOutcomes : MakeRequest(o)
  \/ ChatWake
  \/ GetResponseReturn
  \/ SuspendedAddMessage("user", Hello)
  \/ \E c \in {"general", "teacher"} : SuspendedSetContext(c)

SpecAttempts == InitChat /\ [][NextAttempts]_vars

\* C39: all attempts of one get_response transmit the same request: the
\* message list and the system prompt of every later attempt are those of the
\* first, whatever was called on the session between the attempts.
C39_AttemptsTransmitSameRequest ==
  \A i \in 1..Len(transmitted) : transmitted[i] = transmitted[1]


\* C40: a failed turn leaves nothing behind: once get_response has returned an
\* error message the log is as it was before the call, so it does not end in
\* a user message that has no assistant reply.
C40_FailedTurnLeavesNoUserMessage ==
  (cpc = "idle" /\ chatRes.error)
    => (messages = <<>> \/ messages[Len(messages)].role # "user")

====
